---- MODULE Spec2Model ----
(***************************************************************************)
(* Model of the radarr-sonarr MCP server: handle_call_tool (server.py),   *)
(* the extended handlers (handlers_extended.py) and the response          *)
(* formatter (response_formatter.py).                                     *)
(*                                                                         *)
(* One action per tool.  An action runs the whole handler: it draws the    *)
(* arguments and the backends' replies, issues the HTTP requests in the    *)
(* order of the code, and leaves in the state the last invocation: its     *)
(* name and arguments, the HTTP traffic it caused and the content list it  *)
(* returned.                                                               *)
(*                                                                         *)
(* Python dicts are functions whose DOMAIN is the set of keys present.     *)
(* A text is a sequence of lines; a line is a record [t, s, n]: the        *)
(* template of the line, its string argument and its integer argument.     *)
(*                                                                         *)
(* The service classes (services/*.py) and the watched-status resolver     *)
(* that combines them run under a specification of their own, WatchSpec:   *)
(* handle_call_tool does not reach them.  There providers is the set of    *)
(* configured watch providers and verdict the answer of the call.          *)
(* WatchSpec also applies the from_dict constructors of the entity        *)
(* classes; the entity built is left in content.  The request URL of       *)
(* make_radarr_request and make_sonarr_request is built under UrlSpec,     *)
(* from base URLs, base paths and endpoints given as token sequences.      *)
(***************************************************************************)
EXTENDS Integers, Sequences, FiniteSets, TLC

VARIABLES config, pc, name, arguments, http, content, escaped, providers, verdict

vars == <<config, pc, name, arguments, http, content, escaped, providers, verdict>>

(***************************************************************************)
(* Bounds.                                                                 *)
(***************************************************************************)
MaxLen == 52

MaxPattern == 3

MaxId == 2

(***************************************************************************)
(* Program constants.                                                      *)
(***************************************************************************)
ListCap == 50

SearchCap == 20

\* Overviews are cut at this number of characters.
OverviewCap == 200

Min(a, b) == IF a < b THEN a ELSE b

\* Lengths of backend lists: around 0, around each cap, up to MaxLen.
ListLens ==
  {n \in 0..MaxLen : \/ n <= 2
                     \/ (n >= SearchCap - 1 /\ n <= SearchCap + 1)
                     \/ n >= ListCap - 1}

Patterns == 0..MaxPattern

Ids == 1..MaxId

Services == {"radarr", "sonarr", "both"}

FailStatuses == {"timeout", "http_error"}

Statuses == {"ok"} \cup FailStatuses

(***************************************************************************)
(* Dict helpers.                                                           *)
(***************************************************************************)
Empty == <<>>

Has(d, k) == k \in DOMAIN d

\* d.get(k, dflt)
Get(d, k, dflt) == IF k \in DOMAIN d THEN d[k] ELSE dflt

\* An Optional value: <<>> is None, <<v>> is v.
None == <<>>

Some(v) == <<v>>

\* d.get(k): None when the key is absent
Opt(d, k) == IF Has(d, k) THEN <<d[k]>> ELSE <<>>

\* Optional boolean argument: c = 0 absent, 1 true, 2 false.
OptB(k, c) == IF c = 0 THEN Empty ELSE (k :> (c = 1))

\* Optional integer argument: c = -1 absent.
OptI(k, c) == IF c = -1 THEN Empty ELSE (k :> c)

\* Optional string argument: c = "<absent>" absent.
OptS(k, c) == IF c = "<absent>" THEN Empty ELSE (k :> c)

\* Python truthiness of an optional integer / string argument.
TruthyI(d, k) == Has(d, k) /\ d[k] # 0

TruthyS(d, k) == Has(d, k) /\ d[k] # ""

Line(t, s, n) == [t |-> t, s |-> s, n |-> n]

\* seq[:n]
Take(seq, n) == SubSeq(seq, 1, Min(n, Len(seq)))

(***************************************************************************)
(* Exceptions and the run of a handler.  A run is the HTTP traffic so far  *)
(* and the exception raised, if any.                                       *)
(***************************************************************************)
\* An exception: its type and its message, a sequence of string tokens.
NoExc == [type |-> "", arg |-> <<>>]

Run0 == [http |-> <<>>, raised |-> FALSE, exc |-> NoExc]

Raise(run, type, arg) ==
  [run EXCEPT !.raised = TRUE, !.exc = [type |-> type, arg |-> arg]]

\* str(e): a KeyError prints its key in quotes, the others their message.
StrExc(e) == IF e.type = "KeyError" THEN <<"'">> \o e.arg \o <<"'">> ELSE e.arg

\* Mutant: arguments.get(k) in place of arguments[k].
Require_Get(run, args, k) == run

\* arguments[k]
Require(run, args, k) ==
  IF run.raised THEN run
  ELSE IF k \in DOMAIN args THEN run
  ELSE Raise(run, "KeyError", <<k>>)

StatusMsg(status) ==
  IF status = "timeout" THEN "Read timed out" ELSE "500 Server Error"

KeyMsg(backend) ==
  IF backend = "radarr" THEN "Radarr API key not configured"
  ELSE "Sonarr API key not configured"

ReqEv(backend, method, endpoint, id, data) ==
  [ev |-> "request", backend |-> backend, method |-> method,
   endpoint |-> endpoint, id |-> id, status |-> "", data |-> data]

RespEv(backend, method, endpoint, id, reply) ==
  [ev |-> "response", backend |-> backend, method |-> method,
   endpoint |-> endpoint, id |-> id, status |-> reply.status,
   data |-> IF reply.status = "ok" THEN reply.body ELSE Empty]

\* A backend's reply to one request: the status and, when ok, the JSON body.
Reply(status, body) == [status |-> status, body |-> body]

\* Mutant: a failed request is sent a second time before giving up.
Send_Retry(run, backend, method, endpoint, id, data, reply) ==
  LET once == <<ReqEv(backend, method, endpoint, id, data),
                RespEv(backend, method, endpoint, id, reply)>>
  IN IF reply.status = "ok" THEN [run EXCEPT !.http = run.http \o once]
     ELSE Raise([run EXCEPT !.http = run.http \o once \o once], "RequestException",
                <<StatusMsg(reply.status)>>)

\* requests.<method>(url, ...); response.raise_for_status()
Send(run, backend, method, endpoint, id, data, reply) ==
  LET sent == run.http \o <<ReqEv(backend, method, endpoint, id, data),
                           RespEv(backend, method, endpoint, id, reply)>>
  IN IF reply.status = "ok" THEN [run EXCEPT !.http = sent]
     ELSE Raise([run EXCEPT !.http = sent], "RequestException",
                <<StatusMsg(reply.status)>>)

\* Mutant: the branch taken for any other method posts.
SentMethod_ElsePost(method) ==
  IF method = "PUT" THEN "PUT" ELSE "POST"

\* method.upper() == "POST" / "PUT" / else GET
SentMethod(method) ==
  IF method = "POST" THEN "POST" ELSE IF method = "PUT" THEN "PUT" ELSE "GET"

\* Mutant: a request is sent although an earlier step of the handler raised.
MakeRequest_AfterRaise(run, cfg, backend, method, endpoint, id, data, reply) ==
  IF cfg[backend] = "" THEN Raise(run, "ValueError", <<KeyMsg(backend)>>)
  ELSE IF run.raised
  THEN [run EXCEPT !.http = run.http
                      \o <<ReqEv(backend, SentMethod(method), endpoint, id, data),
                           RespEv(backend, SentMethod(method), endpoint, id, reply)>>]
  ELSE Send(run, backend, SentMethod(method), endpoint, id, data, reply)

\* make_radarr_request / make_sonarr_request
MakeRequest(run, cfg, backend, method, endpoint, id, data, reply) ==
  IF run.raised THEN run
  ELSE IF cfg[backend] = "" THEN Raise(run, "ValueError", <<KeyMsg(backend)>>)
  ELSE Send(run, backend, SentMethod(method), endpoint, id, data, reply)

\* requests.delete(url, headers, params) issued by the handler itself
DirectDelete(run, cfg, backend, endpoint, id, params, reply) ==
  IF run.raised THEN run
  ELSE Send(run, backend, "DELETE", endpoint, id, params, reply)

(***************************************************************************)
(* Handler outcomes: an exception, an already formatted text, or a dict    *)
(* for the response formatter.                                             *)
(***************************************************************************)
Failed(run) == [run |-> run, kind |-> "exception", lines |-> <<>>, d |-> Empty]

Text(run, lines) == [run |-> run, kind |-> "str", lines |-> lines, d |-> Empty]

Dict(run, d) == [run |-> run, kind |-> "dict", lines |-> <<>>, d |-> d]

(***************************************************************************)
(* Backend data.                                                           *)
(***************************************************************************)
\* The kind of the i-th record of a list of pattern p: pattern 0 cycles
\* through the four kinds, pattern p > 0 has p records of other kinds before
\* records of kind 0.
Kind(i, p) == IF p = 0 \/ i <= p THEN i % 4 ELSE 0

\* The release years of the library alternate between two values.
YearOf(i) == 2022 + (i % 2)

\* A movie record of the backend; one kind lacks hasFile.
MovieRec(i, p) ==
  LET k == Kind(i, p)
  IN IF k = 3 THEN [id |-> i, monitored |-> FALSE, year |-> YearOf(i)]
     ELSE [id |-> i, monitored |-> (k < 2), hasFile |-> (k # 1), year |-> YearOf(i)]

MovieList(n, p) == [i \in 1..n |-> MovieRec(i, p)]

MovieLists == {MovieList(n, p) : n \in ListLens, p \in Patterns}

\* A series record of the backend; one kind lacks statistics.
SeriesRec(i, p) ==
  LET k == Kind(i, p)
  IN IF k = 3 THEN [id |-> i, monitored |-> FALSE]
     ELSE [id |-> i, monitored |-> (k < 2),
           statistics |-> [episodeFileCount |-> k, episodeCount |-> 2]]

SeriesList(n, p) == [i \in 1..n |-> SeriesRec(i, p)]

SeriesLists == {SeriesList(n, p) : n \in ListLens, p \in Patterns}

(***************************************************************************)
(* get_radarr_movies                                                       *)
(***************************************************************************)
\* Mutant: an omitted filter is applied as if it were false.
FilterMovies_AbsentIsFalse(movies, args) ==
  SelectSeq(SelectSeq(movies,
              LAMBDA m : Has(m, "monitored") /\ m.monitored = Get(args, "monitored", FALSE)),
            LAMBDA m : Get(m, "hasFile", FALSE) = Get(args, "downloaded", FALSE))

\* server.py 516-521
FilterMovies(movies, args) ==
  LET byMon == IF Has(args, "monitored")
               THEN SelectSeq(movies,
                      LAMBDA m : Has(m, "monitored") /\ m.monitored = args.monitored)
               ELSE movies
  IN IF Has(args, "downloaded")
     THEN SelectSeq(byMon, LAMBDA m : Get(m, "hasFile", FALSE) = args.downloaded)
     ELSE byMon

MovieItem(m) == [id |-> m.id, year |-> m.year, monitored |-> m.monitored,
                 hasFile |-> Get(m, "hasFile", FALSE)]

\* Mutant: the count is taken after the cap.
MoviesResult_CappedCount(movies) ==
  [count |-> Min(ListCap, Len(movies)),
   movies |-> [i \in 1..Min(ListCap, Len(movies)) |-> MovieItem(movies[i])]]

\* server.py 523-537
MoviesResult(movies) ==
  [count |-> Len(movies),
   movies |-> [i \in 1..Min(ListCap, Len(movies)) |-> MovieItem(movies[i])]]

HandleGetRadarrMovies(cfg, args, reply) ==
  LET r1 == MakeRequest(Run0, cfg, "radarr", "GET", "movie", 0, Empty, reply)
  IN IF r1.raised THEN Failed(r1)
     ELSE Dict(r1, MoviesResult(FilterMovies(reply.body, args)))

(***************************************************************************)
(* get_sonarr_series                                                       *)
(***************************************************************************)
EpisodeFileCount(s) ==
  IF Has(s, "statistics") THEN Get(s.statistics, "episodeFileCount", 0) ELSE 0

\* Mutant: a series passes when it passes either of the supplied filters.
FilterSeries_Either(series, args) ==
  SelectSeq(series, LAMBDA s :
    \/ DOMAIN args \cap {"monitored", "downloaded"} = {}
    \/ Has(args, "monitored") /\ Has(s, "monitored") /\ s.monitored = args.monitored
    \/ Has(args, "downloaded") /\ (EpisodeFileCount(s) > 0) = args.downloaded)

\* server.py 543-548
FilterSeries(series, args) ==
  LET byMon == IF Has(args, "monitored")
               THEN SelectSeq(series,
                      LAMBDA s : Has(s, "monitored") /\ s.monitored = args.monitored)
               ELSE series
  IN IF Has(args, "downloaded")
     THEN SelectSeq(byMon, LAMBDA s : (EpisodeFileCount(s) > 0) = args.downloaded)
     ELSE byMon

\* Mutant: the series are listed from the last to the first.
SeriesText_Reversed(series) ==
  IF series = <<>> THEN <<Line("No series found.", "", 0)>>
  ELSE <<Line("{count} series:", "", Len(series))>>
       \o [i \in 1..Min(ListCap, Len(series)) |->
             Line("item", "", series[Len(series) + 1 - i].id)]
       \o (IF Len(series) > ListCap
           THEN <<Line("... {n} more", "", Len(series) - ListCap)>> ELSE <<>>)

\* server.py 550-564
SeriesText(series) ==
  IF series = <<>> THEN <<Line("No series found.", "", 0)>>
  ELSE <<Line("{count} series:", "", Len(series))>>
       \o [i \in 1..Min(ListCap, Len(series)) |-> Line("item", "", series[i].id)]
       \o (IF Len(series) > ListCap
           THEN <<Line("... {n} more", "", Len(series) - ListCap)>> ELSE <<>>)

HandleGetSonarrSeries(cfg, args, reply) ==
  LET r1 == MakeRequest(Run0, cfg, "sonarr", "GET", "series", 0, Empty, reply)
  IN IF r1.raised THEN Failed(r1)
     ELSE Text(r1, SeriesText(FilterSeries(reply.body, args)))

(***************************************************************************)
(* search_radarr_movies, search_sonarr_series                              *)
(***************************************************************************)
\* server.py 570-579, 585-594
SearchText(items, media) ==
  IF items = <<>> THEN <<Line("No {media} found in search.", media, 0)>>
  ELSE <<Line("Found {count} {media} in search:", media, Len(items))>>
       \o [i \in 1..Min(SearchCap, Len(items)) |-> Line("item", "", items[i].id)]

HandleSearch(cfg, args, backend, endpoint, media, reply) ==
  LET r0 == Require(Run0, args, "term")
      r1 == MakeRequest(r0, cfg, backend, "GET", endpoint, 0,
                        [term |-> Get(args, "term", "")], reply)
  IN IF r1.raised THEN Failed(r1) ELSE Text(r1, SearchText(reply.body, media))

(***************************************************************************)
(* add_radarr_movie, add_sonarr_series                                     *)
(***************************************************************************)
ProfileLists == {<<>>, <<[id |-> 4]>>, <<[id |-> 7], [id |-> 4]>>}

FolderLists == {<<>>, <<[path |-> "/mnt/a"]>>, <<[path |-> "/mnt/b"], [path |-> "/mnt/a"]>>}

\* Mutant: the last profile in place of the first.
DefaultProfileId_Last(profiles) ==
  IF profiles # <<>> THEN profiles[Len(profiles)].id ELSE 1

\* server.py 608, 658: profiles[0]["id"] if profiles else 1
DefaultProfileId(profiles) == IF profiles # <<>> THEN profiles[1].id ELSE 1

\* server.py 613, 663: root_folders[0]["path"] if root_folders else "/movies"
DefaultRootFolder(folders, dflt) == IF folders # <<>> THEN folders[1].path ELSE dflt

\* server.py 616-627
MoviePayload(args, qp, rf) ==
  [title |-> Get(args, "title", ""), year |-> Get(args, "year", 0),
   tmdbId |-> Get(args, "tmdbId", 0),
   qualityProfileId |-> qp, rootFolderPath |-> rf,
   monitored |-> Get(args, "monitored", TRUE),
   addOptions |-> [searchForMovie |-> Get(args, "searchForMovie", TRUE),
                   monitor |-> "movieOnly"]]

\* server.py 666-678
SeriesPayload(args, qp, rf) ==
  [title |-> Get(args, "title", ""), year |-> Get(args, "year", 0),
   tvdbId |-> Get(args, "tvdbId", 0),
   qualityProfileId |-> qp, rootFolderPath |-> rf,
   monitored |-> Get(args, "monitored", TRUE),
   seasonFolder |-> Get(args, "seasonFolder", TRUE),
   addOptions |-> [searchForMissingEpisodes |-> Get(args, "searchForMissingEpisodes", TRUE),
                   monitor |-> "all"]]

Success(message) == [success |-> TRUE, message |-> message]

\* server.py 596-644
HandleAddRadarrMovie(cfg, args, rProfiles, rFolders, rPost) ==
  LET r0 == Require(Require(Require(Run0, args, "tmdbId"), args, "title"), args, "year")
      needQ == ~TruthyI(args, "qualityProfileId")
      r1 == IF needQ
            THEN MakeRequest(r0, cfg, "radarr", "GET", "qualityprofile", 0, Empty, rProfiles)
            ELSE r0
      needR == ~TruthyS(args, "rootFolderPath")
      r2 == IF needR
            THEN MakeRequest(r1, cfg, "radarr", "GET", "rootfolder", 0, Empty, rFolders)
            ELSE r1
      qp == IF needQ THEN DefaultProfileId(rProfiles.body) ELSE args.qualityProfileId
      rf == IF needR THEN DefaultRootFolder(rFolders.body, "/movies") ELSE args.rootFolderPath
      r3 == MakeRequest(r2, cfg, "radarr", "POST", "movie", 0, MoviePayload(args, qp, rf), rPost)
  IN IF r3.raised THEN Failed(r3)
     ELSE Dict(r3, Success(Line("Movie '{title} ({year})' has been added to Radarr",
                                Get(args, "title", ""), Get(args, "year", 0))))

\* server.py 646-695
HandleAddSonarrSeries(cfg, args, rProfiles, rFolders, rPost) ==
  LET r0 == Require(Require(Require(Run0, args, "tvdbId"), args, "title"), args, "year")
      needQ == ~TruthyI(args, "qualityProfileId")
      r1 == IF needQ
            THEN MakeRequest(r0, cfg, "sonarr", "GET", "qualityprofile", 0, Empty, rProfiles)
            ELSE r0
      needR == ~TruthyS(args, "rootFolderPath")
      r2 == IF needR
            THEN MakeRequest(r1, cfg, "sonarr", "GET", "rootfolder", 0, Empty, rFolders)
            ELSE r1
      qp == IF needQ THEN DefaultProfileId(rProfiles.body) ELSE args.qualityProfileId
      rf == IF needR THEN DefaultRootFolder(rFolders.body, "/tv") ELSE args.rootFolderPath
      r3 == MakeRequest(r2, cfg, "sonarr", "POST", "series", 0, SeriesPayload(args, qp, rf), rPost)
  IN IF r3.raised THEN Failed(r3)
     ELSE Dict(r3, Success(Line("Series '{title} ({year})' has been added to Sonarr",
                                Get(args, "title", ""), Get(args, "year", 0))))

(***************************************************************************)
(* delete_radarr_movie, delete_sonarr_series                               *)
(***************************************************************************)
\* Mutant: the files are deleted unless the caller says otherwise.
HandleDeleteRadarrMovie_FilesByDefault(cfg, args, reply) ==
  LET r0 == Require(Run0, args, "id")
      id == Get(args, "id", 0)
      params == [deleteFiles |-> Get(args, "deleteFiles", TRUE),
                 addImportExclusion |-> Get(args, "addImportExclusion", FALSE)]
      r1 == DirectDelete(r0, cfg, "radarr", "movie/{id}", id, params, reply)
  IN IF r1.raised THEN Failed(r1)
     ELSE Dict(r1, Success(Line("Movie with ID {id} has been deleted from Radarr", "", id)))

\* server.py 697-726
HandleDeleteRadarrMovie(cfg, args, reply) ==
  LET r0 == Require(Run0, args, "id")
      id == Get(args, "id", 0)
      params == [deleteFiles |-> Get(args, "deleteFiles", FALSE),
                 addImportExclusion |-> Get(args, "addImportExclusion", FALSE)]
      r1 == DirectDelete(r0, cfg, "radarr", "movie/{id}", id, params, reply)
  IN IF r1.raised THEN Failed(r1)
     ELSE Dict(r1, Success(Line("Movie with ID {id} has been deleted from Radarr", "", id)))

\* server.py 934-963
HandleDeleteSonarrSeries(cfg, args, reply) ==
  LET r0 == Require(Run0, args, "id")
      id == Get(args, "id", 0)
      params == [deleteFiles |-> Get(args, "deleteFiles", FALSE),
                 addImportListExclusion |-> Get(args, "addImportListExclusion", FALSE)]
      r1 == DirectDelete(r0, cfg, "sonarr", "series/{id}", id, params, reply)
  IN IF r1.raised THEN Failed(r1)
     ELSE Dict(r1, Success(Line("Series with ID {id} has been deleted from Sonarr", "", id)))

(***************************************************************************)
(* update_radarr_movie, update_sonarr_series                               *)
(***************************************************************************)
MovieEntities ==
  {[id |-> 1, title |-> "Alien", year |-> 1979, status |-> "released",
    monitored |-> TRUE, hasFile |-> TRUE, qualityProfileId |-> 1,
    minimumAvailability |-> "released", tags |-> <<1>>, path |-> "/movies/alien"],
   [id |-> 2, title |-> "Heat", year |-> 1995, status |-> "announced",
    monitored |-> FALSE, qualityProfileId |-> 2, path |-> "/movies/heat"]}

SeriesEntities ==
  {[id |-> 1, title |-> "Lost", year |-> 2004, status |-> "ended",
    monitored |-> TRUE, qualityProfileId |-> 1, seriesType |-> "standard",
    seasonFolder |-> TRUE, tags |-> <<1>>, path |-> "/tv/lost",
    seasons |-> <<1, 2>>,
    statistics |-> [episodeFileCount |-> 3, episodeCount |-> 4]],
   [id |-> 2, title |-> "Dark", year |-> 2017, status |-> "ended",
    monitored |-> FALSE, qualityProfileId |-> 2, path |-> "/tv/dark"]}

\* An overview is modelled by its number of characters.  The entities a
\* detail view is asked for: without overview, with an empty one, with
\* overviews around the cut.
OverviewLens == {-1, 0, OverviewCap - 1, OverviewCap, OverviewCap + 1}

DetailMovies == {e @@ OptI("overview", n) : e \in MovieEntities, n \in OverviewLens}

DetailSeries == {e @@ OptI("overview", n) : e \in SeriesEntities, n \in OverviewLens}

MovieUpdateKeys == {"monitored", "qualityProfileId", "minimumAvailability", "tags"}

SeriesUpdateKeys == {"monitored", "qualityProfileId", "seriesType", "seasonFolder", "tags"}

\* Mutant: the body holds the supplied fields only.
MergeFields_Clobber(existing, args, keys) ==
  [k \in keys \cap DOMAIN args |-> args[k]]

\* server.py 735-742, 768-777: if "k" in arguments: existing["k"] = arguments["k"]
MergeFields(existing, args, keys) ==
  LET supplied == keys \cap DOMAIN args
  IN [k \in (DOMAIN existing) \cup supplied |->
        IF k \in supplied THEN args[k] ELSE existing[k]]

\* server.py 728-759
HandleUpdateRadarrMovie(cfg, args, rGet, rPut) ==
  LET r0 == Require(Run0, args, "id")
      id == Get(args, "id", 0)
      r1 == MakeRequest(r0, cfg, "radarr", "GET", "movie/{id}", id, Empty, rGet)
      r2 == MakeRequest(r1, cfg, "radarr", "PUT", "movie/{id}", id,
                        MergeFields(rGet.body, args, MovieUpdateKeys), rPut)
  IN IF r2.raised THEN Failed(r2)
     ELSE Dict(r2, Success(Line("Movie '{title}' has been updated",
                                Get(rPut.body, "title", "None"), 0)))

\* server.py 761-795
HandleUpdateSonarrSeries(cfg, args, rGet, rPut) ==
  LET r0 == Require(Run0, args, "id")
      id == Get(args, "id", 0)
      r1 == MakeRequest(r0, cfg, "sonarr", "GET", "series/{id}", id, Empty, rGet)
      r2 == MakeRequest(r1, cfg, "sonarr", "PUT", "series/{id}", id,
                        MergeFields(rGet.body, args, SeriesUpdateKeys), rPut)
  IN IF r2.raised THEN Failed(r2)
     ELSE Dict(r2, Success(Line("Series '{title}' has been updated",
                                Get(rPut.body, "title", "None"), 0)))

(***************************************************************************)
(* get_radarr_movie_by_id, get_sonarr_series_by_id                         *)
(***************************************************************************)
\* server.py 797-822
HandleGetRadarrMovieById(cfg, args, reply) ==
  LET r0 == Require(Run0, args, "id")
      id == Get(args, "id", 0)
      r1 == MakeRequest(r0, cfg, "radarr", "GET", "movie/{id}", id, Empty, reply)
      m == reply.body
  IN IF r1.raised THEN Failed(r1)
     ELSE Dict(r1, [movie |-> [id |-> m.id, title |-> m.title, year |-> m.year,
                               overview |-> Opt(m, "overview"),
                               status |-> m.status,
                               monitored |-> m.monitored,
                               hasFile |-> Get(m, "hasFile", FALSE)]])

\* server.py 824-852
HandleGetSonarrSeriesById(cfg, args, reply) ==
  LET r0 == Require(Run0, args, "id")
      id == Get(args, "id", 0)
      r1 == MakeRequest(r0, cfg, "sonarr", "GET", "series/{id}", id, Empty, reply)
      s == reply.body
      stats == Get(s, "statistics", Empty)
  IN IF r1.raised THEN Failed(r1)
     ELSE Dict(r1, [series |-> [id |-> s.id, title |-> s.title, year |-> s.year,
                                overview |-> Opt(s, "overview"),
                                status |-> s.status,
                                monitored |-> s.monitored,
                                seasonCount |-> Len(Get(s, "seasons", <<>>)),
                                totalEpisodeCount |-> Get(stats, "episodeCount", 0),
                                episodeFileCount |-> Get(stats, "episodeFileCount", 0)]])

(***************************************************************************)
(* get_sonarr_episodes, monitor_sonarr_episodes, get_sonarr_episode_files  *)
(***************************************************************************)
EpisodeRec(i, p) ==
  [id |-> i, seriesId |-> 1, seasonNumber |-> 1 + ((i * p) % 3),
   episodeNumber |-> i, hasFile |-> ((i * p) % 2 = 0), monitored |-> (i % 2 = 1)]

EpisodeList(n, p) == [i \in 1..n |-> EpisodeRec(i, p)]

EpisodeLists == {EpisodeList(n, p) : n \in ListLens, p \in Patterns}

\* server.py 854-887
HandleGetSonarrEpisodes(cfg, args, reply) ==
  LET r0 == Require(Run0, args, "seriesId")
      params == ("seriesId" :> Get(args, "seriesId", 0))
                @@ (IF Has(args, "seasonNumber")
                    THEN ("seasonNumber" :> args.seasonNumber) ELSE Empty)
                @@ (IF Get(args, "includeImages", FALSE)
                    THEN ("includeImages" :> TRUE) ELSE Empty)
      r1 == MakeRequest(r0, cfg, "sonarr", "GET", "episode", 0, params, reply)
      episodes == reply.body
  IN IF r1.raised THEN Failed(r1)
     ELSE Dict(r1, [count |-> Len(episodes),
                    episodes |-> [i \in 1..Len(episodes) |-> episodes[i]]])

\* server.py 889-907
HandleMonitorSonarrEpisodes(cfg, args, reply) ==
  LET r0 == Require(Require(Run0, args, "episodeIds"), args, "monitored")
      data == [episodeIds |-> Get(args, "episodeIds", <<>>),
               monitored |-> Get(args, "monitored", FALSE)]
      r1 == MakeRequest(r0, cfg, "sonarr", "PUT", "episode/monitor", 0, data, reply)
  IN IF r1.raised THEN Failed(r1)
     ELSE Dict(r1, Success(Line("Updated monitoring status for {n} episodes", "",
                                Len(Get(args, "episodeIds", <<>>)))))

FileRec(i) == [id |-> i, seriesId |-> 1, size |-> 100 * i]

FileList(n) == [i \in 1..n |-> FileRec(i)]

FileLists == {FileList(n) : n \in ListLens}

\* server.py 909-932
HandleGetSonarrEpisodeFiles(cfg, args, reply) ==
  LET r0 == Require(Run0, args, "seriesId")
      r1 == MakeRequest(r0, cfg, "sonarr", "GET", "episodefile", 0,
                        [seriesId |-> Get(args, "seriesId", 0)], reply)
      files == reply.body
  IN IF r1.raised THEN Failed(r1)
     ELSE Dict(r1, [count |-> Len(files),
                    episodeFiles |-> [i \in 1..Len(files) |-> files[i]]])

(***************************************************************************)
(* handlers_extended.py                                                    *)
(***************************************************************************)
\* A queue record of the backend: of size 0, three quarters done, one third
\* left (a percentage that needs rounding), without size, without sizeleft.
QueueRec(i) ==
  LET k == i % 5
  IN IF k = 0 THEN [id |-> i, size |-> 0, sizeleft |-> 0]
     ELSE IF k = 1 THEN [id |-> i, size |-> 100, sizeleft |-> 25]
     ELSE IF k = 2 THEN [id |-> i, size |-> 3, sizeleft |-> 1]
     ELSE IF k = 3 THEN [id |-> i, sizeleft |-> 10]
     ELSE [id |-> i, size |-> 8]

QueueBody(n) == [records |-> [i \in 1..n |-> QueueRec(i)]]

QueueBodies == {QueueBody(n) : n \in ListLens}

\* Mutant: the share that is left in place of the share that is done.
ProgressTenths_Left(size, sizeLeft) ==
  LET q == (sizeLeft * 1000) \div size
      r == (sizeLeft * 1000) % size
  IN IF 2 * r > size \/ (2 * r = size /\ q % 2 = 1) THEN q + 1 ELSE q

\* f"{(size - size_left) / size * 100:.1f}": the percentage in tenths of a
\* percent, rounded to the nearest tenth (a tie goes to the even digit)
ProgressTenths(size, sizeLeft) ==
  LET q == ((size - sizeLeft) * 1000) \div size
      r == ((size - sizeLeft) * 1000) % size
  IN IF 2 * r > size \/ (2 * r = size /\ q % 2 = 1) THEN q + 1 ELSE q

\* handlers_extended.py 24-32, 44-52
QueueItemLine(item) ==
  LET size == Get(item, "size", 0)
      sizeLeft == Get(item, "sizeleft", 0)
  IN Line("  {title} - {status}{progress}",
          IF size > 0 THEN <<ProgressTenths(size, sizeLeft)>> ELSE <<>>, item.id)

\* handlers_extended.py 20-34, 40-54
QueueSection(label, body) ==
  LET items == Get(body, "records", <<>>)
  IN IF items # <<>>
     THEN <<Line("{LABEL} ({n} items):", label, Len(items))>>
          \o [i \in 1..Min(ListCap, Len(items)) |-> QueueItemLine(items[i])]
     ELSE <<Line("{LABEL}: Empty", label, 0)>>

\* handle_download_queue
HandleDownloadQueue(cfg, args, rRadarr, rSonarr) ==
  LET r0 == Require(Run0, args, "service")
      service == Get(args, "service", "")
      include == Get(args, "includeUnknownItems", FALSE)
      useR == service \in {"radarr", "both"}
      useS == service \in {"sonarr", "both"}
      r1 == IF useR
            THEN MakeRequest(r0, cfg, "radarr", "GET", "queue", 0,
                             [includeUnknownMovieItems |-> include], rRadarr)
            ELSE r0
      r2 == IF useS
            THEN MakeRequest(r1, cfg, "sonarr", "GET", "queue", 0,
                             [includeUnknownSeriesItems |-> include], rSonarr)
            ELSE r1
      lines == <<Line("Download Queue:", "", 0)>>
               \o (IF useR THEN QueueSection("RADAR", rRadarr.body) ELSE <<>>)
               \o (IF useS THEN QueueSection("SONARR", rSonarr.body) ELSE <<>>)
  IN IF r2.raised THEN Failed(r2)
     ELSE IF Len(lines) = 1 THEN Text(r2, <<Line("Download queue is empty.", "", 0)>>)
     ELSE Text(r2, lines)

\* handle_remove_from_queue
HandleRemoveFromQueue(cfg, args, reply) ==
  LET r0 == Require(Require(Run0, args, "service"), args, "id")
      service == Get(args, "service", "")
      id == Get(args, "id", 0)
      params == [removeFromClient |-> Get(args, "removeFromClient", TRUE),
                 blocklist |-> Get(args, "blocklist", FALSE)]
      r1 == DirectDelete(r0, cfg, IF service = "radarr" THEN "radarr" ELSE "sonarr",
                         "queue/{id}", id, params, reply)
  IN IF r1.raised THEN Failed(r1)
     ELSE Dict(r1, Success(Line("Queue item {id} has been removed from {service}",
                                service, id)))

RecList(n) == [i \in 1..n |-> [id |-> i]]

PageBodies ==
  {[page |-> 1, pageSize |-> 2, totalRecords |-> 5, records |-> RecList(n)] : n \in 0..2}

\* handle_get_history
HandleGetHistory(cfg, args, reply) ==
  LET r0 == Require(Run0, args, "service")
      service == Get(args, "service", "")
      pageSize == Get(args, "pageSize", 50)
      params == [pageSize |-> pageSize, page |-> Get(args, "page", 1),
                 sortKey |-> "date", sortDirection |-> "descending"]
                @@ (IF TruthyS(args, "eventType")
                    THEN ("eventType" :> args.eventType) ELSE Empty)
      r1 == MakeRequest(r0, cfg, IF service = "radarr" THEN "radarr" ELSE "sonarr",
                        "GET", "history", 0, params, reply)
      history == reply.body
  IN IF r1.raised THEN Failed(r1)
     ELSE Dict(r1, [page |-> Get(history, "page", 1),
                    pageSize |-> Get(history, "pageSize", pageSize),
                    totalRecords |-> Get(history, "totalRecords", 0),
                    records |-> Get(history, "records", <<>>)])

ImportLists == {RecList(n) : n \in ListLens}

\* handle_manual_import
HandleManualImport(cfg, args, reply) ==
  LET r0 == Require(Require(Run0, args, "service"), args, "path")
      service == Get(args, "service", "")
      idKey == IF service = "radarr" THEN "movieId" ELSE "seriesId"
      params == ("path" :> Get(args, "path", ""))
                @@ (IF TruthyI(args, idKey) THEN (idKey :> args[idKey]) ELSE Empty)
      r1 == MakeRequest(r0, cfg, IF service = "radarr" THEN "radarr" ELSE "sonarr",
                        "GET", "manualimport", 0, params, reply)
      items == reply.body
  IN IF r1.raised THEN Failed(r1)
     ELSE Dict(r1, [count |-> Len(items), items |-> Take(items, ListCap)])

\* server.py 985-1007 and handle_calendar; the default dates are today and
\* today + 90 days
HandleCalendar(cfg, args, service, reply) ==
  LET start == IF TruthyS(args, "start") THEN args.start ELSE "<today>"
      end == IF TruthyS(args, "end") THEN args.end ELSE "<today+90d>"
      params == [start |-> start, end |-> end,
                 unmonitored |-> Get(args, "unmonitored", FALSE)]
      r1 == MakeRequest(Run0, cfg, service, "GET", "calendar", 0, params, reply)
      items == reply.body
  IN IF r1.raised THEN Failed(r1)
     ELSE IF service = "radarr"
     THEN Dict(r1, [count |-> Len(items), movies |-> items])
     ELSE Dict(r1, [count |-> Len(items), episodes |-> items])

\* handlers_extended.py 265-272: a movie of the wanted page
WantedMovie(movie) ==
  [id |-> movie.id, title |-> Opt(movie, "title"), year |-> Opt(movie, "year"),
   monitored |-> Opt(movie, "monitored"), status |-> Opt(movie, "status"),
   minimumAvailability |-> Opt(movie, "minimumAvailability")]

\* handlers_extended.py 283-295: an episode of the wanted page
WantedEpisode(ep) ==
  [id |-> ep.id, seriesId |-> Opt(ep, "seriesId"),
   episodeNumber |-> Opt(ep, "episodeNumber"),
   seasonNumber |-> Opt(ep, "seasonNumber"),
   title |-> Opt(ep, "title"), airDate |-> Opt(ep, "airDate"),
   monitored |-> Opt(ep, "monitored"),
   series |-> [title |-> Opt(Get(ep, "series", Empty), "title"),
               year |-> Opt(Get(ep, "series", Empty), "year")]]

\* Mutant: the total is taken from the page that was returned.
WantedResult_TotalOfPage(wanted, pageSize, service) ==
  LET records == Get(wanted, "records", <<>>)
  IN [page |-> Get(wanted, "page", 1),
      pageSize |-> Get(wanted, "pageSize", pageSize),
      totalRecords |-> Len(records),
      records |-> [i \in 1..Len(records) |->
                     IF service = "radarr" THEN WantedMovie(records[i])
                     ELSE WantedEpisode(records[i])]]

\* handlers_extended.py 259-299: the dict that handle_wanted returns
WantedResult(wanted, pageSize, service) ==
  LET records == Get(wanted, "records", <<>>)
  IN [page |-> Get(wanted, "page", 1),
      pageSize |-> Get(wanted, "pageSize", pageSize),
      totalRecords |-> Get(wanted, "totalRecords", 0),
      records |-> [i \in 1..Len(records) |->
                     IF service = "radarr" THEN WantedMovie(records[i])
                     ELSE WantedEpisode(records[i])]]

\* handle_wanted
HandleWanted(cfg, args, missing, reply) ==
  LET r0 == Require(Run0, args, "service")
      service == Get(args, "service", "")
      pageSize == Get(args, "pageSize", 50)
      params == [pageSize |-> pageSize, page |-> Get(args, "page", 1)]
                @@ (IF missing /\ TruthyS(args, "sortKey")
                    THEN ("sortKey" :> args.sortKey) ELSE Empty)
                @@ (IF missing /\ TruthyS(args, "sortDir")
                    THEN ("sortDirection" :> args.sortDir) ELSE Empty)
      endpoint == IF missing THEN "wanted/missing" ELSE "wanted/cutoff"
      r1 == MakeRequest(r0, cfg, IF service = "radarr" THEN "radarr" ELSE "sonarr",
                        "GET", endpoint, 0, params, reply)
  IN IF r1.raised THEN Failed(r1)
     ELSE Dict(r1, WantedResult(reply.body, pageSize, service))

StatusBodies == {[version |-> "5.0"], Empty}

HealthLists == {<<>>, <<[type |-> "error", message |-> "disk full"]>>}

\* handlers_extended.py 312-335, 341-364
StatusSection(service, status, health) ==
  [service |-> service,
   version |-> Get(status, "version", "None"),
   health |-> health]

\* handle_system_status
HandleSystemStatus(cfg, args, rs1, rh1, rs2, rh2) ==
  LET r0 == Require(Run0, args, "service")
      service == Get(args, "service", "")
      useR == service \in {"radarr", "both"}
      useS == service \in {"sonarr", "both"}
      r1 == IF useR
            THEN MakeRequest(r0, cfg, "radarr", "GET", "system/status", 0, Empty, rs1)
            ELSE r0
      r2 == IF useR
            THEN MakeRequest(r1, cfg, "radarr", "GET", "health", 0, Empty, rh1)
            ELSE r1
      r3 == IF useS
            THEN MakeRequest(r2, cfg, "sonarr", "GET", "system/status", 0, Empty, rs2)
            ELSE r2
      r4 == IF useS
            THEN MakeRequest(r3, cfg, "sonarr", "GET", "health", 0, Empty, rh2)
            ELSE r3
  IN IF r4.raised THEN Failed(r4)
     ELSE Dict(r4, [status |->
            (IF useR THEN <<StatusSection("radarr", rs1.body, rh1.body)>> ELSE <<>>)
            \o (IF useS THEN <<StatusSection("sonarr", rs2.body, rh2.body)>> ELSE <<>>)])

\* Disks of a backend: a regular disk, a disk reported with totalSpace 0,
\* a disk without totalSpace.
DiskLists ==
  {<<[path |-> "/data", freeSpace |-> 50, totalSpace |-> 200]>>,
   <<[path |-> "/data", freeSpace |-> 50, totalSpace |-> 200],
     [path |-> "/proc", freeSpace |-> 0, totalSpace |-> 0]>>,
   <<[path |-> "/mnt", freeSpace |-> 0]>>}

\* disk.get("freeSpace", 0) / disk.get("totalSpace", 1) divides by zero
DivisionByZero(disks) ==
  \E i \in 1..Len(disks) : Get(disks[i], "totalSpace", 1) = 0

\* round((1 - free / total) * 100, 2), in hundredths of a percent
PercentUsed(disk) ==
  10000 - ((Get(disk, "freeSpace", 0) * 10000) \div Get(disk, "totalSpace", 1))

\* handlers_extended.py 377-386, 390-399
DiskSection(service, disks) ==
  [service |-> service,
   disks |-> [i \in 1..Len(disks) |->
                [path |-> disks[i].path,
                 freeSpace |-> Get(disks[i], "freeSpace", 0),
                 totalSpace |-> Get(disks[i], "totalSpace", 0),
                 percentUsed |-> PercentUsed(disks[i])]]]

\* One backend's part of handle_disk_space
DiskStep(run, cfg, backend, reply) ==
  LET r1 == MakeRequest(run, cfg, backend, "GET", "diskspace", 0, Empty, reply)
  IN IF r1.raised \/ ~DivisionByZero(reply.body) THEN r1
     ELSE Raise(r1, "ZeroDivisionError", <<"division by zero">>)

\* handle_disk_space
HandleDiskSpace(cfg, args, rRadarr, rSonarr) ==
  LET r0 == Require(Run0, args, "service")
      service == Get(args, "service", "")
      useR == service \in {"radarr", "both"}
      useS == service \in {"sonarr", "both"}
      r1 == IF useR THEN DiskStep(r0, cfg, "radarr", rRadarr) ELSE r0
      r2 == IF useS THEN DiskStep(r1, cfg, "sonarr", rSonarr) ELSE r1
  IN IF r2.raised THEN Failed(r2)
     ELSE Dict(r2, [diskSpace |->
            (IF useR THEN <<DiskSection("radarr", rRadarr.body)>> ELSE <<>>)
            \o (IF useS THEN <<DiskSection("sonarr", rSonarr.body)>> ELSE <<>>)])

\* handle_execute_command
ExecuteCommand(run, cfg, service, command, args, reply) ==
  LET data == ("name" :> command)
              @@ (IF TruthyI(args, "movieId") /\ service = "radarr"
                  THEN ("movieIds" :> <<args.movieId>>)
                  ELSE IF TruthyI(args, "seriesId") /\ service = "sonarr"
                  THEN ("seriesId" :> args.seriesId)
                  ELSE Empty)
      r1 == MakeRequest(run, cfg, IF service = "radarr" THEN "radarr" ELSE "sonarr",
                        "POST", "command", 0, data, reply)
  IN IF r1.raised THEN Failed(r1)
     ELSE Dict(r1, Success(Line("Command '{command}' has been queued", command, 0)))

\* server.py 1027-1029
HandleExecuteCommand(cfg, args, reply) ==
  ExecuteCommand(Require(Require(Run0, args, "service"), args, "command"), cfg,
                 Get(args, "service", ""), Get(args, "command", ""), args, reply)

\* handle_refresh_monitored
HandleRefreshMonitored(cfg, args, reply) ==
  ExecuteCommand(Require(Run0, args, "service"), cfg, Get(args, "service", ""),
                 IF Get(args, "service", "") = "radarr"
                 THEN "RefreshMovie" ELSE "RefreshSeries",
                 Empty, reply)

\* o[:200] + "..." if len(o) > 200 else o, for an overview of n characters
CutOverview(n) ==
  [chars |-> Min(n, OverviewCap), ellipsis |-> n > OverviewCap]

\* handlers_extended.py 448-468
CollectionItem(coll) ==
  LET movies == Get(coll, "movies", <<>>)
  IN [id |-> coll.id,
      movies |-> [j \in 1..Len(movies) |->
                    [tmdbId |-> movies[j].tmdbId,
                     overview |-> CutOverview(Get(movies[j], "overview", 0))]]]

\* handle_get_collections
HandleGetCollections(cfg, args, reply) ==
  LET params == IF TruthyI(args, "tmdbId") THEN ("tmdbId" :> args.tmdbId) ELSE Empty
      r1 == MakeRequest(Run0, cfg, "radarr", "GET", "collection", 0, params, reply)
      collections == reply.body
  IN IF r1.raised THEN Failed(r1)
     ELSE Dict(r1, [count |-> Len(collections),
                    collections |-> [i \in 1..Len(collections) |->
                                       CollectionItem(collections[i])]])

\* server.py 1037-1038
HandleUnknown(tool) == Failed(Raise(Run0, "ValueError", <<"Unknown tool: ", tool>>))

(***************************************************************************)
(* response_formatter.py                                                   *)
(***************************************************************************)
\* _format_media_list (reached with get_radarr_movies only: get_sonarr_series
\* returns a string)
FormatMediaList(result, media) ==
  LET items == Get(result, media, <<>>)
      count == Get(result, "count", Len(items))
  IN IF items = <<>> THEN <<Line("No {media} found.", media, 0)>>
     ELSE <<Line("{count} {media}:", media, count)>>
          \o [i \in 1..Len(items) |-> Line("item", "", items[i].id)]
          \o (IF count > Len(items)
              THEN <<Line("... {n} more", "", count - Len(items))>> ELSE <<>>)

\* if overview and len(overview) < 200
OverviewShown(overview) ==
  overview # None /\ overview[1] > 0 /\ overview[1] < OverviewCap

\* _format_media_details
FormatMediaDetails(result, media) ==
  LET item == Get(result, media, Empty)
  IN IF item = Empty THEN <<Line("No {media} details found.", media, 0)>>
     ELSE <<Line("**{title} ({year})**", item.title, item.year),
            Line("Status: {status}", item.status, 0),
            Line("Monitored: {monitored}",
                 IF Get(item, "monitored", FALSE) THEN "Yes" ELSE "No", 0),
            Line("Downloaded: {has_file}",
                 IF Get(item, "hasFile", FALSE) THEN "Yes" ELSE "No", 0)>>
          \o (IF media = "series"
              THEN <<Line("Seasons: {season_count}", "", Get(item, "seasonCount", 0)),
                     Line("Episodes: {ep_count}/{total_eps}", "",
                          Get(item, "episodeFileCount", 0))>>
              ELSE <<>>)
          \o (IF OverviewShown(Get(item, "overview", None))
              THEN <<Line("Overview: {overview}", "", item.overview[1])>>
              ELSE <<>>)

\* _format_episodes
FormatEpisodes(result) ==
  LET episodes == Get(result, "episodes", <<>>)
      count == Get(result, "count", Len(episodes))
  IN IF episodes = <<>> THEN <<Line("No episodes found.", "", 0)>>
     ELSE <<Line("Found {count} episodes:", "", count)>>
          \o [i \in 1..Len(episodes) |-> Line("item", "", episodes[i].id)]

\* _format_success_message
FormatSuccessMessage(result) ==
  <<Get(result, "message", Line("Operation completed successfully", "", 0))>>

\* One item of the dump, with the overviews of the movies it holds.
JsonItem(item) ==
  LET movies == Get(item, "movies", <<>>)
  IN <<Line("item", "", item.id)>>
     \o [j \in 1..Len(movies) |->
           Line("\"overview\": {overview}",
                IF movies[j].overview.ellipsis THEN "..." ELSE "",
                movies[j].overview.chars)]

RECURSIVE JsonItems(_)
JsonItems(items) ==
  IF items = <<>> THEN <<>> ELSE JsonItem(Head(items)) \o JsonItems(Tail(items))

\* json.dumps(result, indent=2) of a {count, <key>: [...]} result
JsonDump(result, key) ==
  <<Line("\"count\": {count}", "", result.count)>> \o JsonItems(result[key])

\* _format_calendar
FormatCalendar(result, media) ==
  LET items == Get(result, media, <<>>)
      count == Get(result, "count", Len(items))
  IN IF items = <<>> THEN <<Line("No upcoming {media} found.", media, 0)>>
     ELSE <<Line("Upcoming {media} ({count}):", media, count)>>
          \o [i \in 1..Len(items) |-> Line("item", "", items[i].id)]

\* The decimal digits of n >= 0.
RECURSIVE Digits(_)
Digits(n) == IF n < 10 THEN <<n>> ELSE Digits(n \div 10) \o <<n % 10>>

\* f"{n:02d}": the decimal digits of n, padded with a zero to two digits
Pad2(n) == IF n < 10 THEN <<0>> \o Digits(n) ELSE Digits(n)

\* response_formatter.py 243-253: the line of a wanted record
WantedLine(item) ==
  IF Has(item, "seriesId")
  THEN Line("  {series_title} S{season:02d}E{episode:02d}: {title}",
            <<Pad2(item.seasonNumber[1]), Pad2(item.episodeNumber[1])>>, item.id)
  ELSE Line("  {title} ({year})", "", item.id)

\* f"{None:02d}" raises a TypeError
WantedFormatFails(result) ==
  \E i \in 1..Len(Get(result, "records", <<>>)) :
    /\ Has(result.records[i], "seriesId")
    /\ \/ result.records[i].seasonNumber = <<>>
       \/ result.records[i].episodeNumber = <<>>

\* _format_wanted
FormatWanted(result, wantedType) ==
  LET records == Get(result, "records", <<>>)
      total == Get(result, "totalRecords", Len(records))
  IN IF records = <<>> THEN <<Line("No missing/wanted items found.", "", 0)>>
     ELSE <<Line("Found {total} {wanted_type} items (page {page}):", wantedType, total)>>
          \o [i \in 1..Len(records) |-> WantedLine(records[i])]

\* _format_system_status
FormatSystemStatus(result) ==
  LET sections == Get(result, "status", <<>>)
      SectionLines(sec) ==
        <<Line("{SERVICE}: v{version}", sec.service, 0)>>
        \o (IF sec.health # <<>>
            THEN <<Line("  Health Issues:", "", 0)>>
                 \o [i \in 1..Len(sec.health) |->
                       Line("    {issue_type}: {message}", sec.health[i].message, 0)]
            ELSE <<Line("  All systems healthy", "", 0)>>)
  IN IF sections = <<>> THEN <<Line("No system status available.", "", 0)>>
     ELSE <<Line("System Status:", "", 0)>>
          \o (IF Len(sections) >= 1 THEN SectionLines(sections[1]) ELSE <<>>)
          \o (IF Len(sections) >= 2 THEN SectionLines(sections[2]) ELSE <<>>)

\* _format_disk_space
FormatDiskSpace(result) ==
  LET sections == Get(result, "diskSpace", <<>>)
      SectionLines(sec) ==
        <<Line("{SERVICE}:", sec.service, 0)>>
        \o [i \in 1..Len(sec.disks) |->
              Line("  {path}: ... ({used_pct:.1f}% used)", sec.disks[i].path,
                   sec.disks[i].percentUsed)]
  IN IF sections = <<>> THEN <<Line("No disk space information available.", "", 0)>>
     ELSE <<Line("Disk Space:", "", 0)>>
          \o (IF Len(sections) >= 1 THEN SectionLines(sections[1]) ELSE <<>>)
          \o (IF Len(sections) >= 2 THEN SectionLines(sections[2]) ELSE <<>>)

Formatted(lines) == [raised |-> FALSE, exc |-> NoExc, lines |-> lines]

FormatFailed(type, arg) ==
  [raised |-> TRUE, exc |-> [type |-> type, arg |-> arg], lines |-> <<>>]

\* format_response: the text, or the exception raised while formatting
FormatResponse(result, tool) ==
  IF tool = "get_radarr_movies"
  THEN Formatted(FormatMediaList(result, "movies"))
  ELSE IF tool = "get_radarr_movie_by_id"
  THEN Formatted(FormatMediaDetails(result, "movie"))
  ELSE IF tool = "get_sonarr_series_by_id"
  THEN Formatted(FormatMediaDetails(result, "series"))
  ELSE IF tool = "get_sonarr_episodes"
  THEN Formatted(FormatEpisodes(result))
  ELSE IF tool = "get_history"
  THEN \* _format_history is not defined anywhere
       FormatFailed("NameError", <<"name '_format_history' is not defined">>)
  ELSE IF tool = "get_radarr_calendar"
  THEN Formatted(FormatCalendar(result, "movies"))
  ELSE IF tool = "get_sonarr_calendar"
  THEN Formatted(FormatCalendar(result, "episodes"))
  ELSE IF tool \in {"get_wanted_missing", "get_wanted_cutoff"}
  THEN IF WantedFormatFails(result)
       THEN FormatFailed("TypeError",
                         <<"unsupported format string passed to NoneType.__format__">>)
       ELSE Formatted(FormatWanted(result,
                        IF tool = "get_wanted_missing" THEN "missing" ELSE "cutoff unmet"))
  ELSE IF tool = "get_system_status"
  THEN Formatted(FormatSystemStatus(result))
  ELSE IF tool = "get_disk_space"
  THEN Formatted(FormatDiskSpace(result))
  ELSE IF Has(result, "success")
  THEN Formatted(FormatSuccessMessage(result))
  ELSE IF tool = "get_sonarr_episode_files"
  THEN Formatted(JsonDump(result, "episodeFiles"))
  ELSE IF tool = "manual_import"
  THEN Formatted(JsonDump(result, "items"))
  ELSE Formatted(JsonDump(result, "collections"))

(***************************************************************************)
(* handle_call_tool: the try/except around the dispatch and the formatter. *)
(***************************************************************************)
TextContent(lines) == [type |-> "text", text |-> lines]

ErrorText(e) == <<Line("Error: ", StrExc(e), 0)>>

\* Mutant: the formatter is called outside the try block.
Respond_FormatterEscapes(out, tool) ==
  IF out.kind = "exception"
  THEN [content |-> <<TextContent(ErrorText(out.run.exc))>>, escaped |-> FALSE]
  ELSE IF out.kind = "str"
  THEN [content |-> <<TextContent(out.lines)>>, escaped |-> FALSE]
  ELSE LET f == FormatResponse(out.d, tool)
       IN IF f.raised
          THEN [content |-> <<>>, escaped |-> TRUE]
          ELSE [content |-> <<TextContent(f.lines)>>, escaped |-> FALSE]

\* server.py 1040-1049
Respond(out, tool) ==
  IF out.kind = "exception"
  THEN [content |-> <<TextContent(ErrorText(out.run.exc))>>, escaped |-> FALSE]
  ELSE IF out.kind = "str"
  THEN [content |-> <<TextContent(out.lines)>>, escaped |-> FALSE]
  ELSE LET f == FormatResponse(out.d, tool)
       IN IF f.raised
          THEN [content |-> <<TextContent(ErrorText(f.exc))>>, escaped |-> FALSE]
          ELSE [content |-> <<TextContent(f.lines)>>, escaped |-> FALSE]

Finish(tool, args, out) ==
  LET r == Respond(out, tool)
  IN /\ pc' = "done"
     /\ name' = tool
     /\ arguments' = args
     /\ http' = out.run.http
     /\ content' = r.content
     /\ escaped' = r.escaped
     /\ UNCHANGED <<config, providers, verdict>>

(***************************************************************************)
(* Arguments.                                                              *)
(***************************************************************************)
ListArgs == {OptB("monitored", m) @@ OptB("downloaded", d) : m \in 0..2, d \in 0..2}

\* A caller may pass a year next to the two filters of get_radarr_movies.
YearArgs == {OptI("year", y) : y \in {-1, 2022}}

MovieListArgs == {a @@ y : a \in ListArgs, y \in YearArgs}

SearchArgs == {OptS("term", t) : t \in {"<absent>", "matrix"}}

(***************************************************************************)
(* Actions.                                                                *)
(***************************************************************************)
GetRadarrMovies ==
  /\ pc = "idle"
  /\ \E args \in MovieListArgs, status \in Statuses, body \in MovieLists :
    Finish("get_radarr_movies", args, HandleGetRadarrMovies(config, args, Reply(status, body)))

GetSonarrSeries ==
  /\ pc = "idle"
  /\ \E args \in ListArgs, status \in Statuses, body \in SeriesLists :
    Finish("get_sonarr_series", args, HandleGetSonarrSeries(config, args, Reply(status, body)))

SearchRadarrMovies ==
  /\ pc = "idle"
  /\ \E args \in SearchArgs, status \in Statuses, body \in MovieLists :
    Finish("search_radarr_movies", args,
           HandleSearch(config, args, "radarr", "movie/lookup", "movies", Reply(status, body)))

SearchSonarrSeries ==
  /\ pc = "idle"
  /\ \E args \in SearchArgs, status \in Statuses, body \in SeriesLists :
    Finish("search_sonarr_series", args,
           HandleSearch(config, args, "sonarr", "series/lookup", "series", Reply(status, body)))

\* The three required arguments of an add tool; c says which are missing.
AddRequired(idKey, c) ==
  (IF c \in {1, 4} THEN Empty ELSE (idKey :> 603))
  @@ (IF c \in {2, 4} THEN Empty ELSE ("title" :> "The Matrix"))
  @@ (IF c \in {3, 4} THEN Empty ELSE ("year" :> 1999))

AddArgs(idKey) ==
  {AddRequired(idKey, c) @@ OptI("qualityProfileId", q) @@ OptS("rootFolderPath", rf)
     @@ OptB("monitored", m) :
     c \in 0..4, q \in {-1, 0, 5}, rf \in {"<absent>", "", "/data"}, m \in {0, 2}}

IdChoices == {-1} \cup Ids

DeleteArgs(exclKey) ==
  {OptI("id", i) @@ OptB("deleteFiles", f) @@ OptB(exclKey, x) :
     i \in IdChoices, f \in 0..2, x \in 0..2}

\* Optional tags argument: c = 0 absent, 1 the empty list, 2 the list [2].
OptTags(c) == IF c = 0 THEN Empty ELSE ("tags" :> (IF c = 1 THEN <<>> ELSE <<2>>))

UpdateMovieArgs ==
  {OptI("id", i) @@ OptB("monitored", m) @@ OptI("qualityProfileId", q)
     @@ OptS("minimumAvailability", a) @@ OptTags(t) :
     i \in IdChoices, m \in 0..2, q \in {-1, 3}, a \in {"<absent>", "announced"},
     t \in 0..2}

UpdateSeriesArgs ==
  {OptI("id", i) @@ OptB("monitored", m) @@ OptI("qualityProfileId", q)
     @@ OptS("seriesType", a) @@ OptB("seasonFolder", f) @@ OptTags(t) :
     i \in IdChoices, m \in 0..2, q \in {-1, 3}, a \in {"<absent>", "anime"},
     f \in {0, 2}, t \in {0, 2}}

IdArgs == {OptI("id", i) : i \in IdChoices}

EpisodesArgs ==
  {OptI("seriesId", i) @@ OptI("seasonNumber", n) @@ OptB("includeImages", g) :
     i \in IdChoices, n \in {-1, 0, 1}, g \in 0..2}

MonitorArgs ==
  {(IF e = 0 THEN Empty ELSE ("episodeIds" :> (IF e = 1 THEN <<>> ELSE <<1, 2>>)))
     @@ OptB("monitored", m) : e \in 0..2, m \in 0..2}

SeriesIdArgs == {OptI("seriesId", i) : i \in IdChoices}

AddRadarrMovie ==
  /\ pc = "idle"
  /\ \E args \in AddArgs("tmdbId"), s1 \in Statuses, s2 \in Statuses, s3 \in Statuses,
     profiles \in ProfileLists, folders \in FolderLists :
    Finish("add_radarr_movie", args,
           HandleAddRadarrMovie(config, args, Reply(s1, profiles), Reply(s2, folders),
                                Reply(s3, Empty)))

AddSonarrSeries ==
  /\ pc = "idle"
  /\ \E args \in AddArgs("tvdbId"), s1 \in Statuses, s2 \in Statuses, s3 \in Statuses,
     profiles \in ProfileLists, folders \in FolderLists :
    Finish("add_sonarr_series", args,
           HandleAddSonarrSeries(config, args, Reply(s1, profiles), Reply(s2, folders),
                                 Reply(s3, Empty)))

DeleteRadarrMovie ==
  /\ pc = "idle"
  /\ \E args \in DeleteArgs("addImportExclusion"), status \in Statuses :
    Finish("delete_radarr_movie", args,
           HandleDeleteRadarrMovie(config, args, Reply(status, Empty)))

DeleteSonarrSeries ==
  /\ pc = "idle"
  /\ \E args \in DeleteArgs("addImportListExclusion"), status \in Statuses :
    Finish("delete_sonarr_series", args,
           HandleDeleteSonarrSeries(config, args, Reply(status, Empty)))

UpdateRadarrMovie ==
  /\ pc = "idle"
  /\ \E args \in UpdateMovieArgs, s1 \in Statuses, s2 \in Statuses,
     existing \in MovieEntities, updated \in MovieEntities :
    Finish("update_radarr_movie", args,
           HandleUpdateRadarrMovie(config, args, Reply(s1, existing), Reply(s2, updated)))

UpdateSonarrSeries ==
  /\ pc = "idle"
  /\ \E args \in UpdateSeriesArgs, s1 \in Statuses, s2 \in Statuses,
     existing \in SeriesEntities, updated \in SeriesEntities :
    Finish("update_sonarr_series", args,
           HandleUpdateSonarrSeries(config, args, Reply(s1, existing), Reply(s2, updated)))

GetRadarrMovieById ==
  /\ pc = "idle"
  /\ \E args \in IdArgs, status \in Statuses, body \in DetailMovies :
    Finish("get_radarr_movie_by_id", args,
           HandleGetRadarrMovieById(config, args, Reply(status, body)))

GetSonarrSeriesById ==
  /\ pc = "idle"
  /\ \E args \in IdArgs, status \in Statuses, body \in DetailSeries :
    Finish("get_sonarr_series_by_id", args,
           HandleGetSonarrSeriesById(config, args, Reply(status, body)))

GetSonarrEpisodes ==
  /\ pc = "idle"
  /\ \E args \in EpisodesArgs, status \in Statuses, body \in EpisodeLists :
    Finish("get_sonarr_episodes", args,
           HandleGetSonarrEpisodes(config, args, Reply(status, body)))

MonitorSonarrEpisodes ==
  /\ pc = "idle"
  /\ \E args \in MonitorArgs, status \in Statuses :
    Finish("monitor_sonarr_episodes", args,
           HandleMonitorSonarrEpisodes(config, args, Reply(status, Empty)))

GetSonarrEpisodeFiles ==
  /\ pc = "idle"
  /\ \E args \in SeriesIdArgs, status \in Statuses, body \in FileLists :
    Finish("get_sonarr_episode_files", args,
           HandleGetSonarrEpisodeFiles(config, args, Reply(status, body)))

ServiceChoices == {"<absent>"} \cup Services

QueueArgs ==
  {OptS("service", sv) @@ OptB("includeUnknownItems", u) :
     sv \in ServiceChoices, u \in {0, 1}}

RemoveArgs ==
  {OptS("service", sv) @@ OptI("id", i) @@ OptB("removeFromClient", c)
     @@ OptB("blocklist", b) :
     sv \in {"<absent>", "radarr", "sonarr"}, i \in IdChoices, c \in {0, 2}, b \in {0, 1}}

PageArgs ==
  {OptS("service", sv) @@ OptI("pageSize", ps) @@ OptI("page", pg) :
     sv \in {"<absent>", "radarr", "sonarr"}, ps \in {-1, 2}, pg \in {-1, 1}}

HistoryArgs ==
  {a @@ OptS("eventType", e) : a \in PageArgs, e \in {"<absent>", "grabbed"}}

WantedArgs ==
  {a @@ OptS("sortKey", k) : a \in PageArgs, k \in {"<absent>", "airDateUtc"}}

MaxPage == 3

\* A wanted movie of Radarr's page.
WantedMovieRec(i) == [id |-> i, title |-> "Heat", year |-> 1995, monitored |-> TRUE]

\* A wanted episode of Sonarr's page; season and episode numbers of one and
\* of two digits.
WantedEpisodeRec(i) ==
  [id |-> i, seriesId |-> 1, seasonNumber |-> IF i = 2 THEN 10 ELSE i,
   episodeNumber |-> IF i = 1 THEN 12 ELSE i + 5, title |-> "Pilot",
   series |-> [title |-> "Lost"]]

\* The page the backend returns to a wanted request: at most pageSize
\* records, and the total over all pages.
WantedBodies(args) ==
  LET ps == Get(args, "pageSize", 50)
      Page(n, total) ==
        [page |-> Get(args, "page", 1), pageSize |-> ps, totalRecords |-> total,
         records |-> [i \in 1..n |-> IF Get(args, "service", "") = "radarr"
                                     THEN WantedMovieRec(i) ELSE WantedEpisodeRec(i)]]
  IN UNION {{Page(n, n), Page(n, 5)} : n \in 0..Min(MaxPage, ps)}

ImportArgs ==
  {OptS("service", sv) @@ OptS("path", pt) @@ OptI("movieId", m) :
     sv \in {"<absent>", "radarr", "sonarr"}, pt \in {"<absent>", "/downloads"},
     m \in {-1, 1}}

CalendarArgs ==
  {OptS("start", st) @@ OptS("end", en) @@ OptB("unmonitored", u) :
     st \in {"<absent>", "2025-01-01"}, en \in {"<absent>", "2025-02-01"}, u \in {0, 1}}

ServiceArgs == {OptS("service", sv) : sv \in ServiceChoices}

CommandArgs ==
  {OptS("service", sv) @@ OptS("command", c) @@ OptI("movieId", m) :
     sv \in {"<absent>", "radarr", "sonarr"}, c \in {"<absent>", "RssSync"},
     m \in {-1, 1}}

CollectionArgs == {OptI("tmdbId", t) : t \in {-1, 0, 603}}

\* A collection of one movie, whose overview is short, just over the cut,
\* exactly at the cut, or absent.
CollectionRec(i) ==
  LET k == i % 4
  IN [id |-> i,
      movies |-> <<[tmdbId |-> i]
                   @@ OptI("overview", IF k = 0 THEN OverviewCap - 1
                                       ELSE IF k = 1 THEN OverviewCap + 1
                                       ELSE IF k = 2 THEN OverviewCap
                                       ELSE -1)>>]

CollectionLists == {[i \in 1..n |-> CollectionRec(i)] : n \in ListLens}

UnknownTools == {"no_such_tool", "get_available_movies", "get_available_series"}

GetDownloadQueue ==
  /\ pc = "idle"
  /\ \E args \in QueueArgs, s1 \in Statuses, s2 \in Statuses,
        b1 \in QueueBodies, b2 \in QueueBodies :
       Finish("get_download_queue", args,
              HandleDownloadQueue(config, args, Reply(s1, b1), Reply(s2, b2)))

RemoveFromQueue ==
  /\ pc = "idle"
  /\ \E args \in RemoveArgs, status \in Statuses :
       Finish("remove_from_queue", args,
              HandleRemoveFromQueue(config, args, Reply(status, Empty)))

GetHistory ==
  /\ pc = "idle"
  /\ \E args \in HistoryArgs, status \in Statuses, body \in PageBodies :
       Finish("get_history", args, HandleGetHistory(config, args, Reply(status, body)))

ManualImport ==
  /\ pc = "idle"
  /\ \E args \in ImportArgs, status \in Statuses, body \in ImportLists :
       Finish("manual_import", args, HandleManualImport(config, args, Reply(status, body)))

GetRadarrCalendar ==
  /\ pc = "idle"
  /\ \E args \in CalendarArgs, status \in Statuses, body \in MovieLists :
       Finish("get_radarr_calendar", args,
              HandleCalendar(config, args, "radarr", Reply(status, body)))

GetSonarrCalendar ==
  /\ pc = "idle"
  /\ \E args \in CalendarArgs, status \in Statuses, body \in EpisodeLists :
       Finish("get_sonarr_calendar", args,
              HandleCalendar(config, args, "sonarr", Reply(status, body)))

GetWantedMissing ==
  /\ pc = "idle"
  /\ \E args \in WantedArgs, status \in Statuses :
     \E body \in WantedBodies(args) :
       Finish("get_wanted_missing", args,
              HandleWanted(config, args, TRUE, Reply(status, body)))

GetWantedCutoff ==
  /\ pc = "idle"
  /\ \E args \in PageArgs, status \in Statuses :
     \E body \in WantedBodies(args) :
       Finish("get_wanted_cutoff", args,
              HandleWanted(config, args, FALSE, Reply(status, body)))

GetSystemStatus ==
  /\ pc = "idle"
  /\ \E args \in ServiceArgs, s1 \in Statuses, s2 \in Statuses, s3 \in Statuses,
        s4 \in Statuses, v \in StatusBodies, h \in HealthLists :
       Finish("get_system_status", args,
              HandleSystemStatus(config, args, Reply(s1, v), Reply(s2, h),
                                 Reply(s3, v), Reply(s4, h)))

GetDiskSpace ==
  /\ pc = "idle"
  /\ \E args \in ServiceArgs, s1 \in Statuses, s2 \in Statuses,
        d1 \in DiskLists, d2 \in DiskLists :
       Finish("get_disk_space", args,
              HandleDiskSpace(config, args, Reply(s1, d1), Reply(s2, d2)))

ExecuteCommandTool ==
  /\ pc = "idle"
  /\ \E args \in CommandArgs, status \in Statuses :
       Finish("execute_command", args,
              HandleExecuteCommand(config, args, Reply(status, Empty)))

GetCollections ==
  /\ pc = "idle"
  /\ \E args \in CollectionArgs, status \in Statuses, body \in CollectionLists :
       Finish("get_collections", args,
              HandleGetCollections(config, args, Reply(status, body)))

RefreshMonitored ==
  /\ pc = "idle"
  /\ \E args \in ServiceArgs, status \in Statuses :
       Finish("refresh_monitored", args,
              HandleRefreshMonitored(config, args, Reply(status, Empty)))

UnknownTool ==
  /\ pc = "idle"
  /\ \E tool \in UnknownTools, args \in IdArgs \cup YearArgs :
       Finish(tool, args, HandleUnknown(tool))

Configs == [radarr : {"", "key"}, sonarr : {"", "key"}]

Init ==
  /\ config \in Configs
  /\ pc = "idle"
  /\ name = ""
  /\ arguments = Empty
  /\ http = <<>>
  /\ content = <<>>
  /\ escaped = FALSE
  /\ providers = {}
  /\ verdict = ""

\* The invocation has run to completion; the next one is accepted.
AcceptNext ==
  /\ pc = "done"
  /\ pc' = "idle"
  /\ name' = ""
  /\ arguments' = Empty
  /\ http' = <<>>
  /\ content' = <<>>
  /\ escaped' = FALSE
  /\ verdict' = ""
  /\ UNCHANGED <<config, providers>>

Next ==
  \/ AcceptNext
  \/ GetRadarrMovies
  \/ GetSonarrSeries
  \/ SearchRadarrMovies
  \/ SearchSonarrSeries
  \/ AddRadarrMovie
  \/ AddSonarrSeries
  \/ DeleteRadarrMovie
  \/ DeleteSonarrSeries
  \/ UpdateRadarrMovie
  \/ UpdateSonarrSeries
  \/ GetRadarrMovieById
  \/ GetSonarrSeriesById
  \/ GetSonarrEpisodes
  \/ MonitorSonarrEpisodes
  \/ GetSonarrEpisodeFiles
  \/ GetDownloadQueue
  \/ RemoveFromQueue
  \/ GetHistory
  \/ ManualImport
  \/ GetRadarrCalendar
  \/ GetSonarrCalendar
  \/ GetWantedMissing
  \/ GetWantedCutoff
  \/ GetSystemStatus
  \/ GetDiskSpace
  \/ ExecuteCommandTool
  \/ GetCollections
  \/ RefreshMonitored
  \/ UnknownTool

Spec == Init /\ [][Next]_vars

(***************************************************************************)
(* services/sonarr_service.py, services/radarr_service.py                  *)
(***************************************************************************)
\* Statistics.from_dict
StatisticsFromDict(data) ==
  [episode_file_count |-> Get(data, "episodeFileCount", 0),
   episode_count |-> Get(data, "episodeCount", 0),
   total_episode_count |-> Get(data, "totalEpisodeCount", 0),
   size_on_disk |-> Get(data, "sizeOnDisk", 0)]

\* Series.from_dict
SeriesFromDict(data) ==
  [id |-> data.id,
   title |-> data.title,
   year |-> IF Has(data, "year") THEN Some(data.year) ELSE None,
   overview |-> Get(data, "overview", ""),
   status |-> Get(data, "status", ""),
   network |-> Get(data, "network", ""),
   tags |-> Get(data, "tags", <<>>),
   genres |-> Get(data, "genres", <<>>),
   statistics |-> IF Has(data, "statistics")
                  THEN Some(StatisticsFromDict(data.statistics)) ELSE None,
   data |-> data]

\* Episode.from_dict
EpisodeFromDict(data) ==
  [id |-> data.id,
   series_id |-> data.seriesId,
   episode_file_id |-> IF Has(data, "episodeFileId") THEN Some(data.episodeFileId)
                       ELSE None,
   season_number |-> data.seasonNumber,
   episode_number |-> data.episodeNumber,
   title |-> Get(data, "title", ""),
   air_date |-> IF Has(data, "airDate") THEN Some(data.airDate) ELSE None,
   has_file |-> Get(data, "hasFile", FALSE),
   monitored |-> Get(data, "monitored", TRUE),
   overview |-> Get(data, "overview", ""),
   data |-> data]

\* Mutant: a series without statistics counts as fully downloaded.
SonarrIsSeriesWatched_NoStatistics(series) ==
  IF series.statistics = None THEN TRUE
  ELSE series.statistics[1].episode_file_count >= series.statistics[1].episode_count

\* SonarrService.is_series_watched
SonarrIsSeriesWatched(series) ==
  IF series.statistics = None THEN FALSE
  ELSE series.statistics[1].episode_file_count >= series.statistics[1].episode_count

\* Movie.from_dict
MovieFromDict(data) ==
  [id |-> data.id,
   title |-> data.title,
   year |-> Get(data, "year", 0),
   overview |-> Get(data, "overview", ""),
   has_file |-> Get(data, "hasFile", FALSE),
   status |-> Get(data, "status", ""),
   tags |-> Get(data, "tags", <<>>),
   genres |-> Get(data, "genres", <<>>),
   data |-> data]

\* RadarrService.is_movie_watched
RadarrIsMovieWatched(movie) ==
  Get(Get(Get(movie.data, "movieFile", Empty), "mediaInfo", Empty), "watched", FALSE)

(***************************************************************************)
(* services/jellyfin_service.py, services/plex_service.py                  *)
(***************************************************************************)
Providers == {"jellyfin", "plex"}

\* How a provider answers a request: a 2xx JSON body, no answer in time,
\* a non-2xx status, a 2xx body that is not JSON.
ProviderFailures == {"timeout", "http_error", "not_json"}

ProviderMsg(status) ==
  IF status = "not_json" THEN "Expecting value" ELSE StatusMsg(status)

\* The result of a call: the run and the value returned if nothing is raised.
Ret(run, value) == [run |-> run, value |-> value]

\* requests.get(url, ..., timeout=30): raises when no answer comes
ProviderGet(run, provider, endpoint, id, params, reply) ==
  LET sent == run.http \o <<ReqEv(provider, "GET", endpoint, id, params),
                           RespEv(provider, "GET", endpoint, id, reply)>>
  IN IF reply.status = "timeout"
     THEN Raise([run EXCEPT !.http = sent], "RequestException", <<ProviderMsg(reply.status)>>)
     ELSE [run EXCEPT !.http = sent]

\* response.raise_for_status(); return response.json().get("Items", [])
JellyfinItems(run, reply) ==
  IF run.raised THEN Ret(run, <<>>)
  ELSE IF reply.status = "http_error"
  THEN Ret(Raise(run, "RequestException", <<ProviderMsg(reply.status)>>), <<>>)
  ELSE IF reply.status = "not_json"
  THEN Ret(Raise(run, "ValueError", <<ProviderMsg(reply.status)>>), <<>>)
  ELSE Ret(run, reply.body)

\* JellyfinService.search_series
JellyfinSearchSeries(run, title, reply) ==
  JellyfinItems(ProviderGet(run, "jellyfin", "Users/{user_id}/Items", 0,
                            [IncludeItemTypes |-> "Series", SearchTerm |-> title], reply),
                reply)

\* JellyfinService.get_episodes_for_series
JellyfinGetEpisodesForSeries(run, seriesId, reply) ==
  JellyfinItems(ProviderGet(run, "jellyfin", "Users/{user_id}/Items", seriesId,
                            [IncludeItemTypes |-> "Episode", ParentId |-> seriesId], reply),
                reply)

\* all(ep.get("UserData", {}).get(key, 0) > 0 for ep in episodes)
AllPlayed(episodes, key) ==
  \A i \in 1..Len(episodes) : Get(Get(episodes[i], "UserData", Empty), key, 0) > 0

\* Mutant: the last match of the search is taken.
JellyfinIsSeriesWatched_LastMatch(run, title, rSearch, rEpisodes) ==
  LET s == JellyfinSearchSeries(run, title, rSearch)
      e == JellyfinGetEpisodesForSeries(s.run, s.value[Len(s.value)].Id, rEpisodes)
  IN IF s.run.raised \/ s.value = <<>> THEN Ret(s.run, FALSE)
     ELSE IF e.run.raised \/ e.value = <<>> THEN Ret(e.run, FALSE)
     ELSE Ret(e.run, AllPlayed(e.value, "PlayCount"))

\* JellyfinService.is_series_watched
JellyfinIsSeriesWatched(run, title, rSearch, rEpisodes) ==
  LET s == JellyfinSearchSeries(run, title, rSearch)
      e == JellyfinGetEpisodesForSeries(s.run, s.value[1].Id, rEpisodes)
  IN IF s.run.raised \/ s.value = <<>> THEN Ret(s.run, FALSE)
     ELSE IF e.run.raised \/ e.value = <<>> THEN Ret(e.run, FALSE)
     ELSE Ret(e.run, AllPlayed(e.value, "PlayCount"))

\* try: return response.json().get("MediaContainer", {}).get("Metadata", [])
\* except Exception: return []
PlexMetadata(run, reply) ==
  IF run.raised THEN Ret(run, <<>>)
  ELSE IF reply.status = "ok" THEN Ret(run, reply.body)
  ELSE Ret(run, <<>>)

\* PlexService.search_series
PlexSearchSeries(run, title, reply) ==
  PlexMetadata(ProviderGet(run, "plex", "library/search", 0,
                           [query |-> title, type |-> 4], reply), reply)

\* PlexService.get_episodes_for_series
PlexGetEpisodesForSeries(run, ratingKey, reply) ==
  PlexMetadata(ProviderGet(run, "plex", "library/metadata/{rating_key}/children",
                           ratingKey, Empty, reply), reply)

\* Mutant: the Plex verdict reads Jellyfin's PlayCount field.
PlexIsSeriesWatched_PlayCount(run, title, rSearch, rEpisodes) ==
  LET s == PlexSearchSeries(run, title, rSearch)
      e == PlexGetEpisodesForSeries(s.run, s.value[1].ratingKey, rEpisodes)
  IN IF s.run.raised \/ s.value = <<>> THEN Ret(s.run, FALSE)
     ELSE IF e.run.raised \/ e.value = <<>> THEN Ret(e.run, FALSE)
     ELSE Ret(e.run, AllPlayed(e.value, "PlayCount"))

\* PlexService.is_series_watched
PlexIsSeriesWatched(run, title, rSearch, rEpisodes) ==
  LET s == PlexSearchSeries(run, title, rSearch)
      e == PlexGetEpisodesForSeries(s.run, s.value[1].ratingKey, rEpisodes)
  IN IF s.run.raised \/ s.value = <<>> THEN Ret(s.run, FALSE)
     ELSE IF e.run.raised \/ e.value = <<>> THEN Ret(e.run, FALSE)
     ELSE Ret(e.run, AllPlayed(e.value, "viewCount"))

\* PlexService.search_movie
PlexSearchMovie(run, title, reply) ==
  PlexMetadata(ProviderGet(run, "plex", "library/search", 0,
                           [query |-> title, type |-> 2], reply), reply)

\* PlexService.is_movie_watched
PlexIsMovieWatched(run, title, rSearch) ==
  LET s == PlexSearchMovie(run, title, rSearch)
  IN IF s.run.raised \/ s.value = <<>> THEN Ret(s.run, FALSE)
     ELSE Ret(s.run, Get(Get(s.value[1], "UserData", Empty), "viewCount", 0) > 0)

(***************************************************************************)
(* The watched-status resolver, isWatched(title, kind, config): every      *)
(* configured provider that can answer for the kind is asked, a provider   *)
(* that fails gives no verdict, the verdicts are combined with OR; with no *)
(* provider configured a series falls back to SonarrService and a movie is *)
(* not watched.                                                            *)
(***************************************************************************)
\* A provider's failure is swallowed.
Swallow(run) == [run EXCEPT !.raised = FALSE, !.exc = NoExc]

\* The verdict of a provider's call: none (FALSE) when it failed.
ProviderVerdict(ret) == ~ret.run.raised /\ ret.value

IsWatched(kind, entity, provs, rJS, rJE, rPS, rPE) ==
  IF provs = {}
  THEN Ret(Run0, IF kind = "series" THEN SonarrIsSeriesWatched(SeriesFromDict(entity))
                 ELSE FALSE)
  ELSE LET j == IF "jellyfin" \in provs /\ kind = "series"
                THEN JellyfinIsSeriesWatched(Run0, entity.title, rJS, rJE)
                ELSE Ret(Run0, FALSE)
           r1 == Swallow(j.run)
           p == IF "plex" \notin provs THEN Ret(r1, FALSE)
                ELSE IF kind = "series"
                THEN PlexIsSeriesWatched(r1, entity.title, rPS, rPE)
                ELSE PlexIsMovieWatched(r1, entity.title, rPS)
       IN Ret(Swallow(p.run), ProviderVerdict(j) \/ ProviderVerdict(p))

(***************************************************************************)
(* Inputs of the services.                                                 *)
(***************************************************************************)
MaxEpisodes == 2

\* The statistics a series record of the backend may carry.
StatisticsDicts ==
  {Empty, [episodeCount |-> 1], [episodeFileCount |-> 1]}
  \cup {[episodeFileCount |-> a, episodeCount |-> b] : a \in 0..2, b \in 0..2}

SeriesDicts ==
  {[id |-> 1, title |-> "Lost"]}
  \cup {[id |-> 1, title |-> "Lost", statistics |-> st] : st \in StatisticsDicts}

MovieDicts ==
  {[id |-> 1, title |-> "Heat"],
   [id |-> 1, title |-> "Heat", movieFile |-> Empty],
   [id |-> 1, title |-> "Heat", movieFile |-> [mediaInfo |-> Empty]],
   [id |-> 1, title |-> "Heat", movieFile |-> [mediaInfo |-> [watched |-> FALSE]]],
   [id |-> 1, title |-> "Heat", movieFile |-> [mediaInfo |-> [watched |-> TRUE]]]}

\* An item with a play count: k = 0 not played, 1 played, 2 no UserData.
PlayedItem(i, k, key) ==
  IF k = 2 THEN [Id |-> i] ELSE [Id |-> i, UserData |-> (key :> k)]

PlayedItemLists(key) ==
  UNION {{[i \in 1..m |-> PlayedItem(i, ks[i], key)] : ks \in [1..m -> 0..2]} :
           m \in 0..MaxEpisodes}

MatchLists(idKey) == {<<>>, <<(idKey :> 7)>>, <<(idKey :> 7), (idKey :> 9)>>}

FailedReplies == {Reply(s, Empty) : s \in ProviderFailures}

SearchReplies(idKey) == {Reply("ok", b) : b \in MatchLists(idKey)} \cup FailedReplies

ItemReplies(key) == {Reply("ok", b) : b \in PlayedItemLists(key)} \cup FailedReplies

\* The replies of a provider that is not asked are not drawn.
NoReply == {Reply("timeout", Empty)}

(***************************************************************************)
(* Actions of the services.                                                *)
(***************************************************************************)
VerdictOf(ret) ==
  IF ret.run.raised THEN "" ELSE IF ret.value THEN "watched" ELSE "not watched"

Answer(method, args, ret) ==
  /\ pc' = "done"
  /\ name' = method
  /\ arguments' = args
  /\ http' = ret.run.http
  /\ content' = <<>>
  /\ escaped' = ret.run.raised
  /\ verdict' = VerdictOf(ret)
  /\ UNCHANGED <<config, providers>>

\* Records handed to from_dict: the required fields alone, and with the
\* optional fields.
MovieRecords ==
  MovieDicts \cup {[id |-> 2, title |-> "Alien", year |-> 1979, overview |-> "In space",
                     hasFile |-> TRUE, status |-> "released"]}

SeriesRecords ==
  SeriesDicts \cup {[id |-> 2, title |-> "Dark", year |-> 2017, overview |-> "A cave",
                      status |-> "ended", network |-> "Netflix",
                      statistics |-> [episodeFileCount |-> 2, episodeCount |-> 2,
                                      totalEpisodeCount |-> 3, sizeOnDisk |-> 9]]}

EpisodeRecords ==
  {[id |-> 1, seriesId |-> 1, seasonNumber |-> 1, episodeNumber |-> 1],
   [id |-> 2, seriesId |-> 1, seasonNumber |-> 1, episodeNumber |-> 2,
    title |-> "Pilot", hasFile |-> TRUE, monitored |-> FALSE, overview |-> "A crash",
    episodeFileId |-> 5, airDate |-> "2004-09-22"],
   [id |-> 3, seriesId |-> 1, seasonNumber |-> 1, episodeNumber |-> 3,
    monitored |-> TRUE]}

\* A from_dict call: the record goes in, the entity comes out.
FromDict(method, data, entity) ==
  /\ pc' = "done"
  /\ name' = method
  /\ arguments' = [data |-> data]
  /\ http' = <<>>
  /\ content' = <<entity>>
  /\ escaped' = FALSE
  /\ verdict' = ""
  /\ UNCHANGED <<config, providers>>

CallMovieFromDict ==
  /\ pc = "idle"
  /\ \E data \in MovieRecords : FromDict("Movie.from_dict", data, MovieFromDict(data))

CallSeriesFromDict ==
  /\ pc = "idle"
  /\ \E data \in SeriesRecords : FromDict("Series.from_dict", data, SeriesFromDict(data))

CallEpisodeFromDict ==
  /\ pc = "idle"
  /\ \E data \in EpisodeRecords :
       FromDict("Episode.from_dict", data, EpisodeFromDict(data))

CallStatisticsFromDict ==
  /\ pc = "idle"
  /\ \E data \in StatisticsDicts :
       FromDict("Statistics.from_dict", data, StatisticsFromDict(data))

CallSonarrIsSeriesWatched ==
  /\ pc = "idle"
  /\ \E data \in SeriesDicts :
       Answer("SonarrService.is_series_watched", [series |-> data],
              Ret(Run0, SonarrIsSeriesWatched(SeriesFromDict(data))))

CallRadarrIsMovieWatched ==
  /\ pc = "idle"
  /\ \E data \in MovieDicts :
       Answer("RadarrService.is_movie_watched", [movie |-> data],
              Ret(Run0, RadarrIsMovieWatched(MovieFromDict(data))))

CallJellyfinIsSeriesWatched ==
  /\ pc = "idle"
  /\ "jellyfin" \in providers
  /\ \E rs \in SearchReplies("Id"), re \in ItemReplies("PlayCount") :
       Answer("JellyfinService.is_series_watched", [series_title |-> "Lost"],
              JellyfinIsSeriesWatched(Run0, "Lost", rs, re))

CallPlexIsSeriesWatched ==
  /\ pc = "idle"
  /\ "plex" \in providers
  /\ \E rs \in SearchReplies("ratingKey"), re \in ItemReplies("viewCount") :
       Answer("PlexService.is_series_watched", [series_title |-> "Lost"],
              PlexIsSeriesWatched(Run0, "Lost", rs, re))

CallPlexIsMovieWatched ==
  /\ pc = "idle"
  /\ "plex" \in providers
  /\ \E rs \in ItemReplies("viewCount") :
       Answer("PlexService.is_movie_watched", [movie_title |-> "Heat"],
              PlexIsMovieWatched(Run0, "Heat", rs))

ResolveSeries ==
  /\ pc = "idle"
  /\ \E data \in SeriesDicts,
        rJS \in IF "jellyfin" \in providers THEN SearchReplies("Id") ELSE NoReply,
        rJE \in IF "jellyfin" \in providers THEN ItemReplies("PlayCount") ELSE NoReply,
        rPS \in IF "plex" \in providers THEN SearchReplies("ratingKey") ELSE NoReply,
        rPE \in IF "plex" \in providers THEN ItemReplies("viewCount") ELSE NoReply :
       Answer("isWatched", [kind |-> "series", entity |-> data],
              IsWatched("series", data, providers, rJS, rJE, rPS, rPE))

ResolveMovie ==
  /\ pc = "idle"
  /\ \E data \in MovieDicts,
        rPS \in IF "plex" \in providers THEN ItemReplies("viewCount") ELSE NoReply :
       Answer("isWatched", [kind |-> "movie", entity |-> data],
              IsWatched("movie", data, providers, Reply("timeout", Empty),
                        Reply("timeout", Empty), rPS, Reply("timeout", Empty)))

WatchInit ==
  /\ config = [radarr |-> "key", sonarr |-> "key"]
  /\ pc = "idle"
  /\ name = ""
  /\ arguments = Empty
  /\ http = <<>>
  /\ content = <<>>
  /\ escaped = FALSE
  /\ providers \in SUBSET Providers
  /\ verdict = ""

WatchNext ==
  \/ AcceptNext
  \/ CallMovieFromDict
  \/ CallSeriesFromDict
  \/ CallEpisodeFromDict
  \/ CallStatisticsFromDict
  \/ CallSonarrIsSeriesWatched
  \/ CallRadarrIsMovieWatched
  \/ CallJellyfinIsSeriesWatched
  \/ CallPlexIsSeriesWatched
  \/ CallPlexIsMovieWatched
  \/ ResolveSeries
  \/ ResolveMovie

WatchSpec == WatchInit /\ [][WatchNext]_vars

(***************************************************************************)
(* The request URL.  A text is a sequence of tokens, "/" being a token of  *)
(* its own.                                                                *)
(***************************************************************************)
RECURSIVE RStrip(_)
\* str.rstrip('/')
RStrip(t) ==
  IF t # <<>> /\ t[Len(t)] = "/" THEN RStrip(SubSeq(t, 1, Len(t) - 1)) ELSE t

RECURSIVE LStrip(_)
\* str.lstrip('/')
LStrip(t) ==
  IF t # <<>> /\ t[1] = "/" THEN LStrip(SubSeq(t, 2, Len(t))) ELSE t

\* get_radarr_url / get_sonarr_url
GetUrl(url, basePath) == RStrip(url) \o basePath

\* url = f"{base_url}/{endpoint.lstrip('/')}"
RequestUrl(url, basePath, endpoint) ==
  GetUrl(url, basePath) \o <<"/">> \o LStrip(endpoint)

MaxUrl == 4

RECURSIVE Texts(_)
\* The texts of n tokens over a host token and the slash.
Texts(n) ==
  IF n = 0 THEN {<<>>}
  ELSE {Append(t, c) : t \in Texts(n - 1), c \in {"host", "/"}}

\* Configured base URLs: a host followed by up to MaxUrl - 1 tokens.
BaseUrls == UNION {{<<"host">> \o t : t \in Texts(n)} : n \in 0..(MaxUrl - 1)}

BasePaths == {<<"/", "api", "/", "v3">>, <<>>, <<"/", "radarr", "/", "api", "/", "v3">>}

\* The endpoints the handlers pass never begin with a slash.
Endpoints == {<<"movie">>, <<"movie", "/", "7">>}

BuildUrl(backend) ==
  /\ pc = "idle"
  /\ \E url \in BaseUrls, basePath \in BasePaths, endpoint \in Endpoints :
       /\ pc' = "done"
       /\ name' = (IF backend = "radarr" THEN "make_radarr_request"
                   ELSE "make_sonarr_request")
       /\ arguments' = [url |-> url, basePath |-> basePath, endpoint |-> endpoint]
       /\ content' = <<[type |-> "url", text |-> RequestUrl(url, basePath, endpoint)]>>
       /\ http' = <<>>
       /\ escaped' = FALSE
       /\ verdict' = ""
       /\ UNCHANGED <<config, providers>>

MakeRadarrRequestUrl == BuildUrl("radarr")

MakeSonarrRequestUrl == BuildUrl("sonarr")

UrlInit ==
  /\ config = [radarr |-> "key", sonarr |-> "key"]
  /\ pc = "idle"
  /\ name = ""
  /\ arguments = Empty
  /\ http = <<>>
  /\ content = <<>>
  /\ escaped = FALSE
  /\ providers = {}
  /\ verdict = ""

UrlNext ==
  \/ AcceptNext
  \/ MakeRadarrRequestUrl
  \/ MakeSonarrRequestUrl

UrlSpec == UrlInit /\ [][UrlNext]_vars

(***************************************************************************)
(* Vocabulary of the properties.                                           *)
(***************************************************************************)
Done == pc = "done"

RequestIdx == {i \in 1..Len(http) : http[i].ev = "request"}

ResponseIdx == {i \in 1..Len(http) : http[i].ev = "response"}

FirstLine == content[1].text[1]

IsError == Len(content) = 1 /\ FirstLine.t = "Error: "

ErrorSays(tokens) == IsError /\ FirstLine.s = tokens

TextLines == content[1].text

ItemTemplates == {"item", "  {title} - {status}{progress}"}

ItemIdx == {i \in 1..Len(TextLines) : TextLines[i].t \in ItemTemplates}

MoreIdx == {i \in 1..Len(TextLines) : TextLines[i].t = "... {n} more"}

\* The tools' required arguments, as their input schemas declare them.
RequiredArgs(tool) ==
  IF tool \in {"search_radarr_movies", "search_sonarr_series"} THEN {"term"}
  ELSE IF tool = "add_radarr_movie" THEN {"tmdbId", "title", "year"}
  ELSE IF tool = "add_sonarr_series" THEN {"tvdbId", "title", "year"}
  ELSE IF tool \in {"delete_radarr_movie", "delete_sonarr_series",
                    "update_radarr_movie", "update_sonarr_series",
                    "get_radarr_movie_by_id", "get_sonarr_series_by_id"} THEN {"id"}
  ELSE IF tool \in {"get_sonarr_episodes", "get_sonarr_episode_files"} THEN {"seriesId"}
  ELSE IF tool = "monitor_sonarr_episodes" THEN {"episodeIds", "monitored"}
  ELSE IF tool \in {"get_download_queue", "get_history", "get_wanted_missing",
                    "get_wanted_cutoff", "get_system_status", "get_disk_space",
                    "refresh_monitored"} THEN {"service"}
  ELSE IF tool = "remove_from_queue" THEN {"service", "id"}
  ELSE IF tool = "manual_import" THEN {"service", "path"}
  ELSE IF tool = "execute_command" THEN {"service", "command"}
  ELSE {}

MissingArgs == RequiredArgs(name) \ DOMAIN arguments

RadarrTools == {"get_radarr_movies", "search_radarr_movies", "add_radarr_movie",
                "delete_radarr_movie", "update_radarr_movie", "get_radarr_movie_by_id",
                "get_radarr_calendar", "get_collections"}

SonarrTools == {"get_sonarr_series", "search_sonarr_series", "add_sonarr_series",
                "delete_sonarr_series", "update_sonarr_series", "get_sonarr_series_by_id",
                "get_sonarr_episodes", "monitor_sonarr_episodes",
                "get_sonarr_episode_files", "get_sonarr_calendar"}

BothTools == {"get_download_queue", "get_system_status", "get_disk_space"}

ServiceTools == BothTools \cup {"remove_from_queue", "get_history", "manual_import",
                                "get_wanted_missing", "get_wanted_cutoff",
                                "execute_command", "refresh_monitored"}

\* The backends an invocation with all its required arguments addresses.
Targets ==
  IF MissingArgs # {} THEN {}
  ELSE IF name \in RadarrTools THEN {"radarr"}
  ELSE IF name \in SonarrTools THEN {"sonarr"}
  ELSE IF name \in ServiceTools
  THEN IF arguments.service = "radarr" THEN {"radarr"}
       ELSE IF arguments.service = "both" /\ name \in BothTools THEN {"radarr", "sonarr"}
       ELSE {"sonarr"}
  ELSE {}

\* The records of a movie list that the supplied filters select.
MovieMatches(m) ==
  /\ ("monitored" \in DOMAIN arguments => m.monitored = arguments.monitored)
  /\ ("downloaded" \in DOMAIN arguments =>
        (("hasFile" \in DOMAIN m /\ m.hasFile) <=> arguments.downloaded))

\* The records of a series list that the supplied filters select.
SeriesMatches(r) ==
  /\ ("monitored" \in DOMAIN arguments => r.monitored = arguments.monitored)
  /\ ("downloaded" \in DOMAIN arguments =>
        (("statistics" \in DOMAIN r /\ r.statistics.episodeFileCount > 0)
           <=> arguments.downloaded))

\* The total number of matched records of a list or search invocation whose
\* backend request succeeded.
Matched ==
  LET list == http[2].data
  IN IF name = "get_radarr_movies"
     THEN Cardinality({i \in 1..Len(list) : MovieMatches(list[i])})
     ELSE IF name = "get_sonarr_series"
     THEN Cardinality({i \in 1..Len(list) : SeriesMatches(list[i])})
     ELSE Len(list)

ListedOk(tools) ==
  /\ Done
  /\ name \in tools
  /\ Len(http) = 2
  /\ http[2].status = "ok"

(***************************************************************************)
(* C1: when the API key of the backend an invocation addresses is empty,   *)
(* no HTTP request is sent to that backend and the invocation ends with an *)
(* error result, for every tool that contacts the backend.                 *)
(***************************************************************************)
C1_NoRequestWithoutKey ==
  Done =>
    /\ \A i \in RequestIdx : config[http[i].backend] # ""
    /\ ((\E b \in Targets : config[b] = "") => IsError)

(***************************************************************************)
(* C2: handle_call_tool returns exactly one text content item and lets no  *)
(* exception escape; when the invocation fails (unknown tool, missing      *)
(* argument, backend failure, failure inside the formatter) the text is    *)
(* "Error: " followed by the failure message.                              *)
(***************************************************************************)
C2_SingleTextBlock ==
  Done =>
    /\ ~escaped
    /\ Len(content) = 1
    /\ content[1].type = "text"
    /\ (name \in UnknownTools => ErrorSays(<<"Unknown tool: ", name>>))
    /\ (MissingArgs # {} => \E k \in MissingArgs : ErrorSays(<<"'", k, "'">>))
    /\ (\A i \in ResponseIdx :
          http[i].status # "ok" => ErrorSays(<<StatusMsg(http[i].status)>>))
    /\ (name = "get_history" /\ Len(http) = 2 /\ http[2].status = "ok"
          => ErrorSays(<<"name '_format_history' is not defined">>))

C2_Witness ==
  /\ Done
  /\ name = "get_history"
  /\ Len(http) = 2
  /\ http[2].status = "ok"
  /\ Len(content) = 1
  /\ IsError

(***************************************************************************)
(* C3: when a required argument is missing, the result is an error naming  *)
(* a missing field and no HTTP request has been issued.                    *)
(***************************************************************************)
C3_MissingArgument ==
  (Done /\ MissingArgs # {}) =>
    /\ http = <<>>
    /\ \E k \in MissingArgs : ErrorSays(<<"'", k, "'">>)

C3_Witness ==
  /\ Done
  /\ name = "add_radarr_movie"
  /\ config.radarr = "key"
  /\ MissingArgs = {"year"}
  /\ http = <<>>
  /\ ErrorSays(<<"'", "year", "'">>)

(***************************************************************************)
(* C4: update_radarr_movie and update_sonarr_series write back the entity  *)
(* returned by the preceding GET of the same id, with exactly the supplied *)
(* arguments replaced and every other field unchanged.                     *)
(***************************************************************************)
C4_UpdateKeys ==
  IF name = "update_radarr_movie"
  THEN {"monitored", "qualityProfileId", "minimumAvailability", "tags"}
  ELSE {"monitored", "qualityProfileId", "seriesType", "seasonFolder", "tags"}

C4_ReadModifyWrite ==
  (Done /\ name \in {"update_radarr_movie", "update_sonarr_series"}) =>
    \A i \in RequestIdx :
      http[i].method = "PUT" =>
        LET fetched == http[2].data
            body == http[i].data
            supplied == C4_UpdateKeys \cap DOMAIN arguments
        IN /\ i = 3
           /\ http[1].ev = "request" /\ http[1].method = "GET"
           /\ http[1].endpoint = http[3].endpoint
           /\ http[1].id = arguments.id /\ http[3].id = arguments.id
           /\ http[2].status = "ok"
           /\ DOMAIN body = (DOMAIN fetched) \cup supplied
           /\ \A k \in supplied : body[k] = arguments[k]
           /\ \A k \in (DOMAIN fetched) \ supplied : body[k] = fetched[k]

C4_Witness ==
  /\ Done
  /\ name = "update_radarr_movie"
  /\ Len(http) = 4
  /\ http[4].status = "ok"
  /\ "tags" \in DOMAIN arguments
  /\ "monitored" \notin DOMAIN arguments
  /\ "monitored" \in DOMAIN http[3].data
  /\ "path" \in DOMAIN http[3].data

(***************************************************************************)
(* C5: add_radarr_movie and add_sonarr_series without qualityProfileId and *)
(* rootFolderPath first GET the quality profiles, then GET the root        *)
(* folders, and only after both have returned issue exactly one creation   *)
(* POST, carrying the first profile's id and the first root folder's path. *)
(***************************************************************************)
C5_IsGet(i, endpoint) ==
  /\ http[i].ev = "request"
  /\ http[i].method = "GET"
  /\ http[i].endpoint = endpoint

C5_ResolveThenCreate ==
  (/\ Done
   /\ name \in {"add_radarr_movie", "add_sonarr_series"}
   /\ "qualityProfileId" \notin DOMAIN arguments
   /\ "rootFolderPath" \notin DOMAIN arguments) =>
    /\ \A i \in RequestIdx :
         http[i].method = "POST" =>
           /\ i = 5
           /\ C5_IsGet(1, "qualityprofile") /\ http[2].status = "ok"
           /\ C5_IsGet(3, "rootfolder") /\ http[4].status = "ok"
           /\ (http[2].data # <<>> =>
                 http[5].data.qualityProfileId = http[2].data[1].id)
           /\ (http[4].data # <<>> =>
                 http[5].data.rootFolderPath = http[4].data[1].path)
    /\ (~IsError => /\ Len(http) = 6
                    /\ http[5].ev = "request" /\ http[5].method = "POST")

C5_Witness ==
  /\ Done
  /\ name = "add_radarr_movie"
  /\ "qualityProfileId" \notin DOMAIN arguments
  /\ "rootFolderPath" \notin DOMAIN arguments
  /\ Len(http) = 6
  /\ http[6].status = "ok"
  /\ Len(http[2].data) = 2
  /\ http[5].data.qualityProfileId = 7
  /\ http[5].data.rootFolderPath = "/mnt/b"

(***************************************************************************)
(* C6: for get_download_queue, get_system_status and get_disk_space with   *)
(* service = "both", when the request to one backend fails and the request *)
(* to the other succeeds, the invocation is not an error: the result holds *)
(* the successful backend's section.                                       *)
(***************************************************************************)
C6_BackendOk(b) ==
  /\ \E i \in ResponseIdx : http[i].backend = b
  /\ \A i \in ResponseIdx : http[i].backend = b => http[i].status = "ok"

C6_BackendFailed(b) ==
  \E i \in ResponseIdx : http[i].backend = b /\ http[i].status # "ok"

C6_PartialResults ==
  (/\ Done
   /\ name \in BothTools
   /\ "service" \in DOMAIN arguments
   /\ arguments.service = "both"
   /\ \E good \in {"radarr", "sonarr"}, bad \in {"radarr", "sonarr"} :
        C6_BackendOk(good) /\ C6_BackendFailed(bad)) =>
    ~IsError

(***************************************************************************)
(* C7: within one invocation every backend call is delivered at most once: *)
(* no request is issued twice, and after a failed request nothing is sent. *)
(***************************************************************************)
C7_SameCall(a, b) ==
  /\ a.backend = b.backend
  /\ a.method = b.method
  /\ a.endpoint = b.endpoint
  /\ a.id = b.id

C7_AtMostOnce ==
  Done =>
    /\ \A i \in RequestIdx : \A j \in RequestIdx :
         i # j => ~C7_SameCall(http[i], http[j])
    /\ \A i \in ResponseIdx : http[i].status # "ok" => i = Len(http)

C7_Witness ==
  /\ Done
  /\ name = "get_system_status"
  /\ Len(http) = 6
  /\ http[6].status = "timeout"
  /\ IsError

(***************************************************************************)
(* C8: the count shown by get_radarr_movies, get_sonarr_series and the     *)
(* search tools is the total number of records matched by the filters, for *)
(* every size of the backend list, above the display cap included.         *)
(***************************************************************************)
C8_CountTemplates == {"{count} {media}:", "{count} series:",
                      "Found {count} {media} in search:"}

C8_CountIsTotal ==
  ListedOk({"get_radarr_movies", "get_sonarr_series",
            "search_radarr_movies", "search_sonarr_series"}) =>
    IF Matched = 0 THEN Len(TextLines) = 1 /\ FirstLine.t \notin C8_CountTemplates
    ELSE FirstLine.t \in C8_CountTemplates /\ FirstLine.n = Matched

C8_Witness ==
  /\ ListedOk({"get_radarr_movies"})
  /\ "downloaded" \in DOMAIN arguments
  /\ FirstLine.n > ListCap
  /\ FirstLine.n < Len(http[2].data)
  /\ Cardinality(ItemIdx) = ListCap

(***************************************************************************)
(* C9: every list-returning tool emits at most 50 items (20 for the search *)
(* tools) whatever the size of the backend response.                       *)
(***************************************************************************)
C9_ListTools == {"get_radarr_movies", "get_sonarr_series", "manual_import",
                 "get_sonarr_episodes", "get_sonarr_episode_files",
                 "get_radarr_calendar", "get_sonarr_calendar", "get_collections"}

C9_SearchTools == {"search_radarr_movies", "search_sonarr_series"}

\* The items of the section that starts at line h.
C9_SectionItems(h) ==
  {j \in ItemIdx : j > h /\ \A k \in (h + 1)..j : k \in ItemIdx}

C9_CappedLists ==
  (Done /\ Len(content) = 1) =>
    /\ (name \in C9_ListTools => Cardinality(ItemIdx) <= 50)
    /\ (name \in C9_SearchTools => Cardinality(ItemIdx) <= 20)
    /\ (name = "get_download_queue" =>
          \A h \in 1..Len(TextLines) :
            TextLines[h].t = "{LABEL} ({n} items):" =>
              Cardinality(C9_SectionItems(h)) <= 50)

(***************************************************************************)
(* C10: whenever a list or search tool displays fewer items than the total *)
(* matched count, the response holds an "N more" marker with N the total   *)
(* minus the displayed items; when nothing is truncated there is none.     *)
(***************************************************************************)
C10_MoreMarker ==
  /\ ListedOk({"get_radarr_movies", "get_sonarr_series",
               "search_radarr_movies", "search_sonarr_series"}) =>
       IF Cardinality(ItemIdx) < Matched
       THEN \E i \in MoreIdx : TextLines[i].n = Matched - Cardinality(ItemIdx)
       ELSE MoreIdx = {}
  /\ (Done /\ name = "get_download_queue" /\ Len(content) = 1) =>
       \A h \in 1..Len(TextLines) :
         TextLines[h].t = "{LABEL} ({n} items):" =>
           IF Cardinality(C9_SectionItems(h)) < TextLines[h].n
           THEN \E i \in MoreIdx :
                  TextLines[i].n = TextLines[h].n - Cardinality(C9_SectionItems(h))
           ELSE TRUE

(***************************************************************************)
(* C11: for get_radarr_movies and get_sonarr_series an omitted filter      *)
(* argument removes no record: what is matched with the argument omitted   *)
(* contains what is matched with it supplied as true and as false, with    *)
(* both filters omitted the whole backend list is matched, and a filter    *)
(* supplied as false is applied, not taken as omitted.                     *)
(***************************************************************************)
C11_Tools == {"get_radarr_movies", "get_sonarr_series"}

\* The total matched that the text states.
C11_Count == IF FirstLine.t \in C8_CountTemplates THEN FirstLine.n ELSE 0

\* The ids of the records listed.
C11_ShownIds == {TextLines[i].n : i \in ItemIdx}

\* What the same backend list gives when filter k is supplied as v.
C11_WithFilter(k, v) ==
  IF name = "get_radarr_movies"
  THEN FilterMovies(http[2].data, arguments @@ (k :> v))
  ELSE FilterSeries(http[2].data, arguments @@ (k :> v))

\* The value of the field that filter k tests, for the record r.
C11_Field(r, k) ==
  IF k = "monitored" THEN r.monitored
  ELSE IF name = "get_radarr_movies" THEN "hasFile" \in DOMAIN r /\ r.hasFile
  ELSE "statistics" \in DOMAIN r /\ r.statistics.episodeFileCount > 0

C11_FilterAbsence ==
  ListedOk(C11_Tools) =>
    LET list == http[2].data
        omitted == {"monitored", "downloaded"} \ DOMAIN arguments
    IN /\ \A k \in omitted : \A v \in BOOLEAN :
            LET supplied == C11_WithFilter(k, v)
            IN /\ Len(supplied) <= C11_Count
               /\ (C11_Count <= ListCap =>
                     \A i \in 1..Len(supplied) : supplied[i].id \in C11_ShownIds)
       /\ (omitted = {"monitored", "downloaded"} =>
             /\ C11_Count = Len(list)
             /\ C11_ShownIds = {list[i].id : i \in 1..Min(ListCap, Len(list))})
       /\ \A k \in {"monitored", "downloaded"} \cap DOMAIN arguments :
            \A n \in C11_ShownIds : C11_Field(list[n], k) = arguments[k]

C11_Witness ==
  /\ ListedOk({"get_sonarr_series"})
  /\ "monitored" \notin DOMAIN arguments
  /\ "downloaded" \in DOMAIN arguments
  /\ arguments.downloaded = FALSE
  /\ Len(C11_WithFilter("monitored", FALSE)) > 0
  /\ Len(C11_WithFilter("monitored", FALSE)) < C11_Count
  /\ Len(C11_WithFilter("monitored", TRUE)) > 0
  /\ C11_Count < Len(http[2].data)

(***************************************************************************)
(* C12: the resolver's verdict is "watched" as soon as one configured      *)
(* provider reports the title watched, whatever the other provider answers *)
(* and also when the other provider fails; a provider's failure does not   *)
(* keep the resolver from asking the next one.                             *)
(***************************************************************************)
C12_Resolved == pc = "done" /\ name = "isWatched"

C12_CountKey(p) == IF p = "jellyfin" THEN "PlayCount" ELSE "viewCount"

C12_IdKey(p) == IF p = "jellyfin" THEN "Id" ELSE "ratingKey"

\* The item carries a play count greater than zero.
C12_Played(item, p) ==
  /\ "UserData" \in DOMAIN item
  /\ C12_CountKey(p) \in DOMAIN item.UserData
  /\ item.UserData[C12_CountKey(p)] > 0

\* The answers of provider p, as logged, say that the title is watched.
C12_Reports(p) ==
  IF arguments.kind = "series"
  THEN \E i \in ResponseIdx : \E j \in ResponseIdx :
         /\ i < j
         /\ http[i].backend = p /\ http[i].status = "ok" /\ http[i].data # <<>>
         /\ http[j].backend = p /\ http[j].status = "ok" /\ http[j].data # <<>>
         /\ http[j].id = http[i].data[1][C12_IdKey(p)]
         /\ \A k \in 1..Len(http[j].data) : C12_Played(http[j].data[k], p)
  ELSE \E i \in ResponseIdx :
         /\ p = "plex"
         /\ http[i].backend = p /\ http[i].status = "ok" /\ http[i].data # <<>>
         /\ C12_Played(http[i].data[1], p)

C12_Failed(p) ==
  \E i \in ResponseIdx : http[i].backend = p /\ http[i].status # "ok"

C13_FellBack ==
  /\ pc = "done"
  /\ providers = {}
  /\ \/ name = "SonarrService.is_series_watched"
     \/ name = "isWatched" /\ arguments.kind = "series"

C13_Record == IF name = "isWatched" THEN arguments.entity ELSE arguments.series

\* A count of the record's statistics, 0 when the record does not carry it.
C13_Count(key) ==
  IF "statistics" \in DOMAIN C13_Record /\ key \in DOMAIN C13_Record.statistics
  THEN C13_Record.statistics[key] ELSE 0

C14_MovieFallback ==
  (/\ pc = "done"
   /\ providers = {}
   /\ name = "RadarrService.is_movie_watched") =>
    verdict = "not watched"

(***************************************************************************)
(* C15: when a request of JellyfinService.is_series_watched,               *)
(* PlexService.is_series_watched or PlexService.is_movie_watched fails     *)
(* (no answer, non-2xx status, non-JSON body), no exception reaches the    *)
(* caller: the call returns, and its answer is "not watched".              *)
(***************************************************************************)
C15_ProviderCalls == {"JellyfinService.is_series_watched",
                      "PlexService.is_series_watched",
                      "PlexService.is_movie_watched"}

C15_FailureContained ==
  (/\ pc = "done"
   /\ name \in C15_ProviderCalls
   /\ \E i \in ResponseIdx : http[i].status \in ProviderFailures) =>
    /\ ~escaped
    /\ verdict = "not watched"

(***************************************************************************)
(* C16: get_download_queue shows a progress percentage for a queue item    *)
(* exactly when the item's size is greater than 0, and that percentage is  *)
(* (size - sizeleft) / size * 100 to one decimal; an item of size 0 or     *)
(* without size shows no progress and raises no division error.            *)
(***************************************************************************)
C16_ItemTemplate == "  {title} - {status}{progress}"

\* The response of the backend that a section label stands for.
C16_Body(label) ==
  LET b == IF label = "RADAR" THEN "radarr" ELSE "sonarr"
      i == CHOOSE k \in ResponseIdx : http[k].backend = b
  IN http[i].data

\* t is (size - left) / size * 100 in tenths, to the nearest tenth.
C16_IsPercentage(t, size, left) ==
  LET d == t * size - 1000 * (size - left)
  IN 2 * d <= size /\ -2 * d <= size

C16_QueueProgress ==
  (Done /\ name = "get_download_queue") =>
    /\ IsError =>
         \/ MissingArgs # {}
         \/ \E b \in Targets : config[b] = ""
         \/ \E i \in ResponseIdx : http[i].status # "ok"
    /\ \A h \in 1..Len(TextLines) :
         TextLines[h].t = "{LABEL} ({n} items):" =>
           \A j \in C9_SectionItems(h) :
             LET rec == C16_Body(TextLines[h].s).records[j - h]
                 shown == TextLines[j].s
             IN /\ TextLines[j].t = C16_ItemTemplate
                /\ TextLines[j].n = rec.id
                /\ IF "size" \in DOMAIN rec /\ rec.size > 0
                   THEN /\ Len(shown) = 1
                        /\ C16_IsPercentage(shown[1], rec.size,
                             IF "sizeleft" \in DOMAIN rec THEN rec.sizeleft ELSE 0)
                   ELSE Len(shown) = 0

C16_Witness ==
  /\ Done
  /\ name = "get_download_queue"
  /\ ~IsError
  /\ \E i \in ItemIdx : TextLines[i].n = 1 /\ TextLines[i].s = <<750>>
  /\ \E i \in ItemIdx : TextLines[i].n = 2 /\ TextLines[i].s = <<667>>
  /\ \E i \in ItemIdx : TextLines[i].n = 5 /\ TextLines[i].s = <<>>
  /\ \E i \in ItemIdx : TextLines[i].n = 3 /\ TextLines[i].s = <<>>

(***************************************************************************)
(* C17: get_wanted_missing and get_wanted_cutoff hand on the backend's     *)
(* page: the total shown is the total the backend reports, whatever the    *)
(* page size, every record of the page is listed and no other, and an      *)
(* episode is listed as S<season>E<episode>, each zero-padded to two       *)
(* digits.                                                                 *)
(***************************************************************************)
C17_Tools == {"get_wanted_missing", "get_wanted_cutoff"}

C17_EpisodeTemplate == "  {series_title} S{season:02d}E{episode:02d}: {title}"

C17_MovieTemplate == "  {title} ({year})"

\* The value of a sequence of decimal digits.
RECURSIVE C17_Value(_)
C17_Value(ds) ==
  IF ds = <<>> THEN 0 ELSE 10 * C17_Value(SubSeq(ds, 1, Len(ds) - 1)) + ds[Len(ds)]

\* ds is n written with two digits.
C17_TwoDigits(ds, n) ==
  /\ Len(ds) = 2
  /\ \A k \in 1..2 : ds[k] \in 0..9
  /\ C17_Value(ds) = n

C17_WantedPage ==
  ListedOk(C17_Tools) =>
    LET page == http[2].data
        result == WantedResult(page, http[1].data.pageSize, arguments.service)
    IN /\ result.totalRecords = page.totalRecords
       /\ Len(result.records) = Len(page.records)
       /\ ~IsError
       /\ IF page.records = <<>> THEN Len(TextLines) = 1
          ELSE /\ FirstLine.n = page.totalRecords
               /\ Len(TextLines) = 1 + Len(page.records)
               /\ \A i \in 1..Len(page.records) :
                    LET rec == page.records[i]
                        line == TextLines[i + 1]
                    IN /\ line.n = rec.id
                       /\ IF arguments.service = "radarr"
                          THEN line.t = C17_MovieTemplate
                          ELSE /\ line.t = C17_EpisodeTemplate
                               /\ C17_TwoDigits(line.s[1], rec.seasonNumber)
                               /\ C17_TwoDigits(line.s[2], rec.episodeNumber)

C17_Witness ==
  /\ ListedOk({"get_wanted_missing"})
  /\ arguments.service = "sonarr"
  /\ "pageSize" \in DOMAIN arguments /\ arguments.pageSize = 2
  /\ "page" \in DOMAIN arguments /\ arguments.page = 1
  /\ http[2].data.totalRecords = 5
  /\ Len(http[2].data.records) = 2
  /\ FirstLine.n = 5
  /\ Len(TextLines) = 3
  /\ TextLines[2].s = <<<<0, 1>>, <<1, 2>>>>
  /\ TextLines[3].s = <<<<1, 0>>, <<0, 7>>>>

(***************************************************************************)
(* C18: a movie listing asked with year = Y gives exactly the movies of    *)
(* the library whose year is Y (and that pass the other filters supplied), *)
(* its count being their number; a series listing asked without a filter   *)
(* gives every series of the library.  Stated for get_available_movies and *)
(* get_available_series and for the dispatcher's get_radarr_movies and     *)
(* get_sonarr_series, when the backend is configured and answers.          *)
(***************************************************************************)
C18_MovieTools == {"get_available_movies", "get_radarr_movies"}

C18_SeriesTools == {"get_available_series", "get_sonarr_series"}

C18_Asked ==
  /\ Done
  /\ \/ name \in C18_MovieTools /\ Has(arguments, "year") /\ config.radarr # ""
     \/ name \in C18_SeriesTools /\ arguments = Empty /\ config.sonarr # ""
  /\ \A i \in ResponseIdx : http[i].status = "ok"

\* The records of the library that the listing has to give.
C18_Expected(list) ==
  IF name \in C18_SeriesTools THEN list
  ELSE SelectSeq(list, LAMBDA m :
         /\ m.year = arguments.year
         /\ (Has(arguments, "monitored") => m.monitored = arguments.monitored)
         /\ (Has(arguments, "downloaded") =>
               Get(m, "hasFile", FALSE) = arguments.downloaded))

C18_Count == IF FirstLine.t \in C8_CountTemplates THEN FirstLine.n ELSE 0

C18_ShownIds == {TextLines[i].n : i \in ItemIdx}

C18_YearFilter ==
  C18_Asked =>
    /\ ~IsError
    /\ Len(http) = 2
    /\ LET expected == C18_Expected(http[2].data)
       IN /\ C18_Count = Len(expected)
          /\ (Len(expected) <= ListCap =>
                C18_ShownIds = {expected[i].id : i \in 1..Len(expected)})

(***************************************************************************)
(* C19: when a read that add_radarr_movie, add_sonarr_series,              *)
(* update_radarr_movie or update_sonarr_series makes before its write      *)
(* (the quality-profile list, the root-folder list, the existing entity)   *)
(* fails, the invocation ends with an error result, the failed read is the *)
(* last request sent and no POST or PUT is issued.                         *)
(***************************************************************************)
C19_Tools == {"add_radarr_movie", "add_sonarr_series",
              "update_radarr_movie", "update_sonarr_series"}

C19_FailedReads ==
  {i \in ResponseIdx : http[i].method = "GET" /\ http[i].status # "ok"}

C19_NoWriteAfterFailedRead ==
  (Done /\ name \in C19_Tools /\ C19_FailedReads # {}) =>
    /\ IsError
    /\ C19_FailedReads = {Len(http)}
    /\ \A i \in 1..Len(http) : http[i].method \notin {"POST", "PUT"}

\* The profile list was read, the read of the root folders failed.
C19_Witness ==
  /\ Done
  /\ name = "add_radarr_movie"
  /\ Len(http) = 4
  /\ http[2].endpoint = "qualityprofile" /\ http[2].status = "ok"
  /\ http[4].endpoint = "rootfolder" /\ http[4].status = "timeout"
  /\ IsError

(***************************************************************************)
(* C20: get_download_queue, get_system_status and get_disk_space called    *)
(* with service = "both" and both backends configured fan out and join:    *)
(* a request to Sonarr is sent before any response of Radarr has come in,  *)
(* and the result is produced when both backends have answered.            *)
(***************************************************************************)
C20_Tools == {"get_download_queue", "get_system_status", "get_disk_space"}

C20_Both ==
  /\ Done
  /\ name \in C20_Tools
  /\ Has(arguments, "service") /\ arguments.service = "both"
  /\ config.radarr # "" /\ config.sonarr # ""

C20_Of(idx, backend) == {i \in idx : http[i].backend = backend}

C20_FanOutJoin ==
  C20_Both =>
    /\ \E i \in C20_Of(RequestIdx, "sonarr") :
         \A j \in C20_Of(ResponseIdx, "radarr") : i < j
    /\ C20_Of(ResponseIdx, "radarr") # {}
    /\ C20_Of(ResponseIdx, "sonarr") # {}

(***************************************************************************)
(* C21: the items that get_radarr_movies and get_sonarr_series display     *)
(* are records of the backend's list, each displayed once, in the order    *)
(* the backend gave them: of two displayed items the one displayed first   *)
(* stands first in the backend list, whatever filters are supplied and     *)
(* whether or not the cap cuts the list.                                   *)
(***************************************************************************)
\* The place in the backend list of the record with the given id.
C21_Place(id) ==
  LET list == http[2].data
  IN IF \E k \in 1..Len(list) : list[k].id = id
     THEN CHOOSE k \in 1..Len(list) : list[k].id = id
     ELSE 0

C21_OrderPreserved ==
  ListedOk({"get_radarr_movies", "get_sonarr_series"}) =>
    /\ \A a \in ItemIdx : C21_Place(TextLines[a].n) > 0
    /\ \A a \in ItemIdx : \A b \in ItemIdx :
         a < b => C21_Place(TextLines[a].n) < C21_Place(TextLines[b].n)

\* A filtered and capped list: records are skipped between displayed ones.
C21_Witness ==
  /\ ListedOk({"get_sonarr_series"})
  /\ DOMAIN arguments # {}
  /\ MoreIdx # {}
  /\ \E a \in ItemIdx : a + 1 \in ItemIdx
        /\ C21_Place(TextLines[a + 1].n) > C21_Place(TextLines[a].n) + 1

(***************************************************************************)
(* C22: the filters of get_radarr_movies and get_sonarr_series are         *)
(* conjunctive: what is matched with monitored = m and downloaded = d      *)
(* both supplied is the intersection of what the same backend list gives   *)
(* with monitored = m alone and with downloaded = d alone.                 *)
(***************************************************************************)
\* The ids matched in the backend list when only filter k is kept.
C22_Alone(k) ==
  LET only == [j \in {k} |-> arguments[j]]
      kept == IF name = "get_radarr_movies" THEN FilterMovies(http[2].data, only)
              ELSE FilterSeries(http[2].data, only)
  IN {kept[i].id : i \in 1..Len(kept)}

C22_Count == IF FirstLine.t \in C8_CountTemplates THEN FirstLine.n ELSE 0

C22_ShownIds == {TextLines[i].n : i \in ItemIdx}

C22_BothSupplied ==
  /\ ListedOk({"get_radarr_movies", "get_sonarr_series"})
  /\ {"monitored", "downloaded"} \subseteq DOMAIN arguments

C22_Conjunctive ==
  C22_BothSupplied =>
    LET both == C22_Alone("monitored") \cap C22_Alone("downloaded")
    IN /\ C22_Count = Cardinality(both)
       /\ C22_ShownIds \subseteq both
       /\ (Cardinality(both) <= ListCap => C22_ShownIds = both)

\* Each filter alone matches records that the other one rejects.
C22_Witness ==
  /\ C22_BothSupplied
  /\ C22_Alone("monitored") \ C22_Alone("downloaded") # {}
  /\ C22_Alone("downloaded") \ C22_Alone("monitored") # {}
  /\ C22_ShownIds # {}

(***************************************************************************)
(* C23: within one provider a series is judged by the first result of the  *)
(* search alone: the only episode request made is for that item, the       *)
(* verdict is "watched" only if every episode of the item has a play or    *)
(* view count above zero (a missing count being zero), and it is "watched" *)
(* whenever the episode list is not empty and every count is above zero.   *)
(***************************************************************************)
C23_Calls == {"JellyfinService.is_series_watched", "PlexService.is_series_watched"}

C23_Judged == pc = "done" /\ name \in C23_Calls /\ ~escaped

C23_IdKey == IF name = "JellyfinService.is_series_watched" THEN "Id" ELSE "ratingKey"

C23_CountKey == IF name = "JellyfinService.is_series_watched" THEN "PlayCount"
                ELSE "viewCount"

C23_Count(ep) ==
  IF "UserData" \in DOMAIN ep /\ C23_CountKey \in DOMAIN ep.UserData
  THEN ep.UserData[C23_CountKey] ELSE 0

\* The episodes of the judged item, when the provider gave them.
C23_Episodes ==
  IF Len(http) = 4 /\ http[4].status = "ok" THEN http[4].data ELSE <<>>

C23_EveryEpisodePlayed ==
  \A i \in 1..Len(C23_Episodes) : C23_Count(C23_Episodes[i]) > 0

C23_FirstMatchEveryEpisode ==
  C23_Judged =>
    /\ Len(http) \in {2, 4}
    /\ (Len(http) = 4 =>
          /\ http[2].data # <<>>
          /\ http[3].ev = "request"
          /\ http[3].id = http[2].data[1][C23_IdKey])
    /\ (verdict = "watched" => C23_Episodes # <<>> /\ C23_EveryEpisodePlayed)
    /\ (C23_Episodes # <<>> /\ C23_EveryEpisodePlayed => verdict = "watched")

\* Two matches, two episodes, one of them without a count.
C23_Witness ==
  /\ C23_Judged
  /\ name = "JellyfinService.is_series_watched"
  /\ Len(http) = 4
  /\ Len(http[2].data) = 2
  /\ Len(C23_Episodes) = 2
  /\ C23_Count(C23_Episodes[1]) > 0
  /\ "UserData" \notin DOMAIN C23_Episodes[2]
  /\ verdict = "not watched"

(***************************************************************************)
(* C24: get_disk_space, for a disk that the backend reports with a         *)
(* totalSpace of 0 or without totalSpace, shows 0% used and does not end   *)
(* in an error.                                                            *)
(***************************************************************************)
C24_Asked ==
  /\ Done
  /\ name = "get_disk_space"
  /\ MissingArgs = {}
  /\ \A b \in Targets : config[b] # ""
  /\ \A i \in ResponseIdx : http[i].status = "ok"

\* The paths of the disks received whose total size is zero or absent.
C24_ZeroPaths ==
  UNION {{http[i].data[k].path : k \in {k \in 1..Len(http[i].data) :
                                         Get(http[i].data[k], "totalSpace", 0) = 0}} :
         i \in ResponseIdx}

C24_DiskTemplate == "  {path}: ... ({used_pct:.1f}% used)"

C24_ZeroTotalIsZeroPercent ==
  (C24_Asked /\ C24_ZeroPaths # {}) =>
    /\ ~IsError
    /\ \A i \in 1..Len(TextLines) :
         (TextLines[i].t = C24_DiskTemplate /\ TextLines[i].s \in C24_ZeroPaths) =>
           TextLines[i].n = 0

(***************************************************************************)
(* C25: the request URL is the base URL with exactly one trailing slash    *)
(* removed, and no more than one even when it ends with several, followed  *)
(* by the base path, one slash and the endpoint.                           *)
(***************************************************************************)
\* The text without its last token when that token is a slash.
C25_TrimOne(t) ==
  IF t # <<>> /\ t[Len(t)] = "/" THEN SubSeq(t, 1, Len(t) - 1) ELSE t

C25_UrlBuilt == pc = "done" /\ name \in {"make_radarr_request", "make_sonarr_request"}

C25_OneSlashTrimmed ==
  C25_UrlBuilt =>
    content[1].text = C25_TrimOne(arguments.url) \o arguments.basePath
                        \o <<"/">> \o arguments.endpoint

(***************************************************************************)
(* C26: Movie.from_dict, Series.from_dict, Episode.from_dict and           *)
(* Statistics.from_dict do not fail on a record without optional fields    *)
(* and default an absent field by its type: an absent boolean (hasFile,    *)
(* monitored) becomes false, an absent count (year, episodeFileCount,      *)
(* episodeCount, totalEpisodeCount, sizeOnDisk) becomes 0, an absent text  *)
(* (overview, status, network, an episode's title) becomes empty.          *)
(***************************************************************************)
C26_Methods == {"Movie.from_dict", "Series.from_dict", "Episode.from_dict",
                "Statistics.from_dict"}

C26_Normalized == pc = "done" /\ name \in C26_Methods

\* The entity's field f holds the plain value v.
C26_Is(f, v) ==
  LET e == content[1]
  IN /\ f \in DOMAIN e
     /\ IF name = "Series.from_dict" /\ f = "year" THEN e[f] = Some(v) ELSE e[f] = v

\* The record's key, the entity's field and the default of the field's type.
C26_Fields ==
  IF name = "Movie.from_dict"
  THEN {<<"year", "year", 0>>, <<"hasFile", "has_file", FALSE>>,
        <<"overview", "overview", "">>, <<"status", "status", "">>}
  ELSE IF name = "Series.from_dict"
  THEN {<<"year", "year", 0>>, <<"overview", "overview", "">>,
        <<"status", "status", "">>, <<"network", "network", "">>}
  ELSE IF name = "Episode.from_dict"
  THEN {<<"title", "title", "">>, <<"hasFile", "has_file", FALSE>>,
        <<"monitored", "monitored", FALSE>>, <<"overview", "overview", "">>}
  ELSE {<<"episodeFileCount", "episode_file_count", 0>>,
        <<"episodeCount", "episode_count", 0>>,
        <<"totalEpisodeCount", "total_episode_count", 0>>,
        <<"sizeOnDisk", "size_on_disk", 0>>}

C26_DefaultsByType ==
  C26_Normalized =>
    /\ ~escaped
    /\ \A f \in C26_Fields :
         f[1] \notin DOMAIN arguments.data => C26_Is(f[2], f[3])

(***************************************************************************)
(* C27: in a list response an overview of more than 200 characters is      *)
(* given as its first 200 characters and an ellipsis and a shorter one is  *)
(* given unchanged (observed on get_collections, the list tool whose text  *)
(* carries the overviews); a detail view, get_radarr_movie_by_id or        *)
(* get_sonarr_series_by_id, gives the overview in full whatever its        *)
(* length.                                                                 *)
(***************************************************************************)
C27_OverviewIdx ==
  {i \in 1..Len(TextLines) : TextLines[i].t = "\"overview\": {overview}"}

\* The length of the overview of the movie of the collection with this id.
C27_Length(id) ==
  LET movie == http[2].data[id].movies[1]
  IN IF "overview" \in DOMAIN movie THEN movie.overview ELSE 0

C27_ListCut ==
  ListedOk({"get_collections"}) =>
    /\ Cardinality(C27_OverviewIdx) = Len(http[2].data)
    /\ \A i \in C27_OverviewIdx :
         LET n == C27_Length(TextLines[i - 1].n)
         IN IF n > 200
            THEN TextLines[i].n = 200 /\ TextLines[i].s = "..."
            ELSE TextLines[i].n = n /\ TextLines[i].s = ""

C27_DetailFull ==
  (/\ ListedOk({"get_radarr_movie_by_id", "get_sonarr_series_by_id"})
   /\ "overview" \in DOMAIN http[2].data
   /\ http[2].data.overview > 0) =>
    \E i \in 1..Len(TextLines) :
      /\ TextLines[i].t = "Overview: {overview}"
      /\ TextLines[i].n = http[2].data.overview

C27_OverviewText == C27_ListCut /\ C27_DetailFull

(***************************************************************************)
(* C28: an invocation of a read-only tool (the get_* and search_* tools)   *)
(* sends GET requests only: no POST, PUT or DELETE reaches a backend.      *)
(***************************************************************************)
C28_ReadTools ==
  {"get_radarr_movies", "get_sonarr_series",
   "search_radarr_movies", "search_sonarr_series",
   "get_radarr_movie_by_id", "get_sonarr_series_by_id",
   "get_sonarr_episodes", "get_sonarr_episode_files",
   "get_download_queue", "get_history",
   "get_radarr_calendar", "get_sonarr_calendar",
   "get_wanted_missing", "get_wanted_cutoff",
   "get_system_status", "get_disk_space", "get_collections"}

C28_ReadOnly ==
  (Done /\ name \in C28_ReadTools) =>
    \A i \in 1..Len(http) : http[i].method = "GET"

\* A read of both backends: four requests, all answered.
C28_Witness ==
  /\ Done
  /\ name = "get_system_status"
  /\ Len(http) = 8
  /\ ~IsError
  /\ \A i \in 1..Len(http) : http[i].method = "GET"

(***************************************************************************)
(* C29: delete_radarr_movie and delete_sonarr_series called with an id     *)
(* send exactly one request, a DELETE addressed to the entity of that id;  *)
(* it carries deleteFiles = true only when the caller supplied             *)
(* deleteFiles = true, and false otherwise, and likewise the exclusion     *)
(* flag; the result is a success message only when that DELETE was         *)
(* answered with a 2xx status.                                             *)
(***************************************************************************)
C29_Tools == {"delete_radarr_movie", "delete_sonarr_series"}

C29_ExclusionKey ==
  IF name = "delete_radarr_movie" THEN "addImportExclusion" ELSE "addImportListExclusion"

\* The flag as the caller gave it: true only when supplied as true.
C29_Supplied(k) == k \in DOMAIN arguments /\ arguments[k]

C29_OneDelete ==
  (Done /\ name \in C29_Tools) =>
    /\ "id" \in DOMAIN arguments =>
         /\ Len(http) = 2
         /\ http[1].ev = "request" /\ http[1].method = "DELETE"
         /\ http[1].backend = (IF name = "delete_radarr_movie" THEN "radarr" ELSE "sonarr")
         /\ http[1].endpoint = (IF name = "delete_radarr_movie" THEN "movie/{id}"
                                ELSE "series/{id}")
         /\ http[1].id = arguments.id
         /\ DOMAIN http[1].data = {"deleteFiles", C29_ExclusionKey}
         /\ http[1].data.deleteFiles = C29_Supplied("deleteFiles")
         /\ http[1].data[C29_ExclusionKey] = C29_Supplied(C29_ExclusionKey)
    /\ "id" \notin DOMAIN arguments => http = <<>>
    /\ ~IsError => Len(http) = 2 /\ http[2].status = "ok"

\* The files are kept although the caller named the flag, the exclusion is set.
C29_Witness ==
  /\ Done
  /\ name = "delete_sonarr_series"
  /\ ~IsError
  /\ "deleteFiles" \in DOMAIN arguments /\ ~arguments.deleteFiles
  /\ http[1].method = "DELETE"
  /\ ~http[1].data.deleteFiles
  /\ http[1].data.addImportListExclusion

(***************************************************************************)
(* C30: add_radarr_movie and add_sonarr_series called with both a          *)
(* qualityProfileId and a rootFolderPath (and the required arguments, the  *)
(* backend being configured) send exactly one request, the creation POST,  *)
(* without looking up profiles or root folders, and its payload carries    *)
(* the caller's qualityProfileId and rootFolderPath unchanged, whatever    *)
(* the values supplied.                                                    *)
(***************************************************************************)
C30_Tools == {"add_radarr_movie", "add_sonarr_series"}

C30_BothSupplied ==
  /\ Done
  /\ name \in C30_Tools
  /\ MissingArgs = {}
  /\ {"qualityProfileId", "rootFolderPath"} \subseteq DOMAIN arguments
  /\ \A b \in Targets : config[b] # ""

C30_SinglePost ==
  C30_BothSupplied =>
    /\ Len(http) = 2
    /\ http[1].ev = "request" /\ http[1].method = "POST"
    /\ http[1].data.qualityProfileId = arguments.qualityProfileId
    /\ http[1].data.rootFolderPath = arguments.rootFolderPath

====
